---------------------------- MODULE Spec2Model ----------------------------
(***************************************************************************)
(* KanOpt: the allocator agent's pending-action queue and executor, the    *)
(* two manually acknowledged bus consumers, the event processor and the    *)
(* event-publishing API handlers.                                          *)
(***************************************************************************)
EXTENDS Integers, Sequences, FiniteSets, TLC

(***************************************************************************)
(* Bounds of the model.                                                    *)
(***************************************************************************)
\* PendingActions ever created by one agent process (uuid.New() ids 1..MaxActions).
MaxActions == 2
\* Length of a team-performance snapshot in the agent specification.
AgentTeam == 1
\* Length of a team-performance snapshot in the overload specification.
MaxTeam == 3
\* Messages producers try to publish.
MaxMsgs == 2
\* History counters (handler failures, log rows per event) saturate here.
MaxSeen == 2
\* Events the API handlers emit in the producer and processor specifications.
MaxEmitted == 1
\* Tasks on the board.
MaxTasks == 4
\* Completed tasks on the board.
MaxDone == 2
\* Tasks on the board whose burndown is asked for.
MaxSprintTasks == 2
\* Rows of the suggestions table.
MaxSuggestions == 1
\* Capacity of a client's send channel (256 in the code).
SendBuffer == 1
\* Columns a board gets from elsewhere, and the rows the columns table holds.
MaxUserColumns == 2
MaxColumnRows == 12
MaxAgentActions == 2
\* Users of the board in the periodic-analysis specification.
HealthTeam == 4

(***************************************************************************)
(* Program constants.                                                      *)
(***************************************************************************)
\* agent.go:971  action.RetryCount < 3
MaxRetries == 3
\* agent.go:914  perf.CompletedTasks > 6
OverloadTasks == 6
\* agent.go:914  perf.TotalStoryPoints > 20
OverloadPoints == 20
\* agent.go:733 / 691,775 / 755: priorities given by the alert handlers
PriorityOverload == 1
PriorityStructural == 2
PriorityDeadline == 3
\* agent.go:869  Priority: 2 of analyzeBoardHealth
PriorityProactive == 2

\* processor.go:255  Score: 0.8, in tenths
BottleneckScore == 8

Users == {"u1", "u2", "u3"}

\* Three of the default columns of initializeDefaultColumns (processor.go:289-295)
ColumnIds == {"backlog", "progress", "review"}
WIPLimit == [c \in ColumnIds |-> CASE c = "backlog" -> 0 [] c = "progress" -> 3 [] c = "review" -> 2]
AlertTypes == {"bottleneck", "overload", "deadline_risk", "wip_violation", "other"}

VARIABLES
    \* ---- allocator agent (agent.go, package main) ----
    agentUp,         \* FALSE once an unrecovered panic has ended the process
    isActive,        \* AllocatorAgent.isActive
    pendingActions,  \* AllocatorAgent.pendingActions: id -> PendingAction
    nextId,          \* ids handed out so far (uuid.New() never repeats)
    actions,         \* executePendingActions: the sorted slice still to attempt
    attempted,       \* history: the ids the running batch has attempted so far
    attempts,        \* history: id -> the results (ok or not) of its execution attempts
    finished,        \* history: id -> how removeAction ended it, with the RetryCount of the removed copy
    analysis,        \* overload specification: the workload snapshot of the alert
    alertUser,       \* overload specification: the overloaded user of the alert
    \* ---- message bus, event processor, API handlers ----
    msgs,            \* every message a producer tried to publish, by id: its queue,
                     \* origin and body, and what became of it
    eventQueue,      \* kanopt.events.queue: ids of the messages ready for delivery
    riskQueue,       \* allocator.risk.queue: ids of the messages ready for delivery
    eventLog,        \* the events table: per message id, the rows written for it
    lastDelivery,    \* history: per consumer, its latest loop iteration
    taskCount,       \* the tasks table: column -> number of tasks in it
    positions,       \* the tasks table: column -> the positions of its tasks, ascending
    risks,           \* the risk_predictions table, as the set of its distinct rows
    \* ---- metric projections (processor.go) ----
    clock,           \* time.Now(), in instants since the Sunday before the ISO week
    doneTasks,       \* the tasks table: completed_at and story_points of the completed tasks
    velocityRows,    \* the velocity_metrics table
    basis,           \* history: sprint week -> number of completed tasks in the table
                     \* when updateVelocityMetrics last wrote the week's row (-1: never)
    \* ---- goroutines of the agent and their lock (agent.go) ----
    pc,              \* goroutine -> the step of its code it stands before
    mutex,           \* AllocatorAgent.mutex: its writer and its readers
    access,          \* history: the latest access to pendingActions or lastAnalysis
    \* ---- shutdown of the two processes (agent.go main, backend main) ----
    quit,            \* the processes whose main has received the termination signal
    ctxDone,         \* the agent's ctx has been cancelled
    exited,          \* the processes whose main has returned
    loop,            \* background loop -> where it stands
    \* ---- the API's agent endpoints (api/agent.go) ----
    agentActions,    \* the agent_actions table, in order of creation
    response,        \* history: the latest response of an API handler
    \* ---- one event on its way through the bus (messaging) ----
    sent,            \* the Event a producer handed to PublishEvent
    wire,            \* amqp091.Publishing.Body
    handed,          \* the Event the consumer handed to its handler
    \* ---- concurrent requests on the tasks table (api/tasks.go) ----
    taskTable,       \* the tasks table: task id -> its column_id and position
    requests,        \* request -> its handler, where it stands and its locals
    \* ---- GET /analytics/board/:id/burndown (api analytics) ----
    boardTasks,      \* the tasks table: created_at, completed_at, story_points of the board's tasks
    burndownData,    \* the latest response of GetBurndownData
    \* ---- suggestions and their actions (api/agent.go) ----
    suggestions,     \* the suggestions table: id -> status
    \* ---- the WebSocket hub (websocket) ----
    hub,             \* Hub.clients, Hub.rooms and the clients' send channels
    \* ---- the columns table (processor.go) ----
    columns          \* the columns of the board, in order of creation

agentVars == <<agentUp, isActive, pendingActions, nextId, actions, attempted,
               attempts, finished, analysis, alertUser>>

busVars == <<msgs, eventQueue, riskQueue, eventLog, lastDelivery>>

procVars == <<taskCount, positions, risks>>

metricVars == <<clock, doneTasks, velocityRows, basis>>

lockVars == <<pc, mutex, access>>

stopVars == <<quit, ctxDone, exited, loop>>

apiVars == <<agentActions, response>>

tripVars == <<sent, wire, handed>>

moveVars == <<taskTable, requests>>

burnVars == <<boardTasks, burndownData>>

suggVars == <<suggestions>>

hubVars == <<hub>>

colVars == <<columns>>

restVars == <<burnVars, suggVars, hubVars, colVars>>

taskVars == <<lockVars, stopVars, apiVars, tripVars, moveVars, restVars>>

vars == <<agentVars, busVars, procVars, metricVars, taskVars>>

(***************************************************************************)
(* analyzeWorkload: one WorkloadAnalysis per team-performance row.         *)
(***************************************************************************)
TaskCounts == {1, 2, 7}
StoryPoints == {5, 21}
Perf == [userId : Users, completedTasks : TaskCounts, totalStoryPoints : StoryPoints]

IsOverloaded(perf) ==
    perf.completedTasks > OverloadTasks \/ perf.totalStoryPoints > OverloadPoints

\* Capacity is 1.0 - CompletedTasks / 10.0, kept in tenths
WorkloadAnalysis(perf) ==
    [UserID |-> perf.userId,
     ActiveTasks |-> perf.completedTasks,
     TotalStoryPoints |-> perf.totalStoryPoints,
     Capacity |-> 10 - perf.completedTasks,
     IsOverloaded |-> IsOverloaded(perf)]

\* The rows the agent specification draws from: one overloaded load, one not.
AgentPerf == {p \in Perf : p.completedTasks # 2 /\ p.totalStoryPoints = 5}

\* The rows GetTeamPerformance returns: one per user, at most n of them.
Snapshots(rows, n) ==
    UNION {{s \in [1..k -> rows] : \A i, j \in 1..k : i # j => s[i].userId # s[j].userId}
           : k \in 0..n}

analyzeWorkload(rows) == [i \in 1..Len(rows) |-> WorkloadAnalysis(rows[i])]


(***************************************************************************)
(* handleOverloadAlert, lines 714-722: the search for the least loaded     *)
(* user.  go.mod states go 1.21, so the range clause declares ONE variable *)
(* `user` that every iteration assigns; `targetUser = &user` stores the    *)
(* address of that variable, and *targetUser is whatever `user` holds when *)
(* it is read.  The loop state is the pointer (nil or &user) and the value *)
(* of `user`.                                                              *)
(***************************************************************************)
RECURSIVE FindTargetLoop(_, _, _, _)
FindTargetLoop(an, userID, i, st) ==
    IF i > Len(an) THEN st
    ELSE LET user == an[i]
             \* targetUser, when not nil, points at `user` itself
             deref == user
             take == /\ user.UserID # userID
                     /\ ~user.IsOverloaded
                     /\ (st.targetUser = "nil" \/ user.ActiveTasks < deref.ActiveTasks)
         IN  FindTargetLoop(an, userID, i + 1,
                 [targetUser |-> IF take THEN "&user" ELSE st.targetUser,
                  user |-> user])

NoUser == "none"

\* The UserID read through targetUser after the loop (NoUser when it is nil).
\* the first other user, overloaded or not
FindTargetIgnoringLoad(an, userID) ==
    LET others == {i \in 1..Len(an) : an[i].UserID # userID}
    IN  IF others = {} THEN NoUser
        ELSE an[CHOOSE i \in others : \A j \in others : i <= j].UserID
FindTarget(an, userID) ==
    LET st == FindTargetLoop(an, userID, 1, [targetUser |-> "nil", user |-> [UserID |-> NoUser]])
    IN  IF st.targetUser = "nil" THEN NoUser ELSE st.user.UserID

(***************************************************************************)
(* The alert handlers.  An alert is its type, whether Data holds the       *)
(* fields its handler asserts (columnId/wipLimit, userId, taskId), and the *)
(* user it names.  A handler yields an outcome (ok: returned nil, err:     *)
(* returned an error, panic: a failed type assertion) and the              *)
(* PendingActions it queued.                                               *)
(***************************************************************************)
Alerts ==
    [Type : {"overload"}, HasFields : BOOLEAN, UserId : Users]
    \cup [Type : AlertTypes \ {"overload"}, HasFields : BOOLEAN, UserId : {NoUser}]

PendingAction(type, priority, from, to) ==
    [Type |-> type, Priority |-> priority, RetryCount |-> 0,
     FromUserId |-> from, ToUserId |-> to]

Handled(outcome, queued) == [outcome |-> outcome, queued |-> queued]

handleBottleneckAlert(alert) ==
    IF ~alert.HasFields THEN Handled("panic", <<>>)
    ELSE Handled("ok", <<PendingAction("adjust_wip_limits", PriorityStructural, NoUser, NoUser)>>)

\* workload: what the team-performance request gave; ok is FALSE when http.Get
\* or the JSON decoding failed, rows are the rows returned otherwise
handleOverloadAlert(alert, workload) ==
    IF ~alert.HasFields THEN Handled("panic", <<>>)
    ELSE IF ~workload.ok THEN Handled("err", <<>>)
    ELSE LET target == FindTarget(analyzeWorkload(workload.rows), alert.UserId)
         IN  IF target = NoUser THEN Handled("ok", <<>>)
             ELSE Handled("ok", <<PendingAction("redistribute_tasks", PriorityOverload,
                                                alert.UserId, target)>>)

\* queues its action and then reports an error
handleDeadlineAlertQueueThenFail(alert) ==
    IF ~alert.HasFields THEN Handled("panic", <<>>)
    ELSE Handled("err", <<PendingAction("reassign_overdue", PriorityDeadline, NoUser, NoUser)>>)
handleDeadlineAlert(alert) ==
    IF ~alert.HasFields THEN Handled("panic", <<>>)
    ELSE Handled("ok", <<PendingAction("reassign_overdue", PriorityDeadline, NoUser, NoUser)>>)

handleWIPViolationAlert(alert) ==
    IF ~alert.HasFields THEN Handled("panic", <<>>)
    ELSE Handled("ok", <<PendingAction("enforce_wip_limits", PriorityStructural, NoUser, NoUser)>>)

handleRiskAlert(alert, workload) ==
    CASE alert.Type = "bottleneck" -> handleBottleneckAlert(alert)
      [] alert.Type = "overload" -> handleOverloadAlert(alert, workload)
      [] alert.Type = "deadline_risk" -> handleDeadlineAlert(alert)
      [] alert.Type = "wip_violation" -> handleWIPViolationAlert(alert)
      [] OTHER -> Handled("ok", <<>>)

(***************************************************************************)
(* queueAction / removeAction on the pendingActions map.                   *)
(***************************************************************************)
\* a write that replaces the map by the one entry
PutAlone(pa, id, action) == [k \in {id} |-> action]

Put(pa, id, action) ==
    [k \in DOMAIN pa \cup {id} |-> IF k = id THEN action ELSE pa[k]]

Remove(pa, id) == [k \in DOMAIN pa \ {id} |-> pa[k]]

\* queueAction for each action a handler built, ids in creation order
RECURSIVE QueueAll(_, _, _)
QueueAll(pa, queued, id) ==
    IF queued = <<>> THEN pa
    ELSE QueueAll(Put(pa, id + 1, Head(queued) @@ [ID |-> id + 1]),
                  Tail(queued), id + 1)

(***************************************************************************)
(* executePendingActions: the snapshot, the exchange sort of lines         *)
(* 957-963, and the retry decision of lines 970-978.                       *)
(***************************************************************************)
\* The orders in which ranging over the map can yield its entries.
Orders(S) ==
    {s \in [1..Cardinality(S) -> S] : \A i, j \in 1..Cardinality(S) : i # j => s[i] # s[j]}

\* line 959
ShouldSwap(a, b) == a.Priority < b.Priority

Swap(s, i, j) == [s EXCEPT ![i] = s[j], ![j] = s[i]]

RECURSIVE SortInner(_, _, _)
SortInner(s, i, j) ==
    IF j > Len(s) THEN s
    ELSE SortInner(IF ShouldSwap(s[i], s[j]) THEN Swap(s, i, j) ELSE s, i, j + 1)

RECURSIVE SortOuter(_, _)
SortOuter(s, i) ==
    IF i >= Len(s) THEN s ELSE SortOuter(SortInner(s, i, i + 1), i + 1)

SortByPriority(s) == SortOuter(s, 1)

\* line 971, on the incremented count
RequeueAlways(retryCount) == TRUE
RequeueOnceMore(retryCount) == retryCount <= MaxRetries
ShouldRequeue(retryCount) == retryCount < MaxRetries

\* lines 979-982: a successful action leaves the map
KeepAfterSuccess(pa, action) == Put(pa, action.ID, action)
AfterSuccess(pa, action) == Remove(pa, action.ID)

\* lines 966-978: a failed action is counted, then put back or removed
AfterFailure(pa, action) ==
    LET failed == [action EXCEPT !.RetryCount = action.RetryCount + 1]
    IN  IF ShouldRequeue(failed.RetryCount)
        THEN Put(pa, failed.ID, failed)
        ELSE Remove(pa, failed.ID)


(***************************************************************************)
(* The agent process: alert intake, the execution timer, /activate and     *)
(* /deactivate.                                                            *)
(***************************************************************************)
Workloads(rows, n) ==
    {[ok |-> FALSE, rows |-> <<>>]} \cup {[ok |-> TRUE, rows |-> r] : r \in Snapshots(rows, n)}

NotFinished == [outcome |-> "none", RetryCount |-> 0]

NoDelivery ==
    [id |-> 0, unmarshalOk |-> FALSE, Type |-> "", stored |-> FALSE,
     handler |-> "none", acks |-> <<>>]

\* Empty queues, an empty events table, no delivery yet.
BusInit ==
    /\ msgs = <<>>
    /\ eventQueue = <<>>
    /\ riskQueue = <<>>
    /\ eventLog = <<>>
    /\ lastDelivery = [events |-> NoDelivery, risk |-> NoDelivery]

\* a board with one task in its backlog and no risk predictions
(***************************************************************************)
(* Time and the velocity projection.  An instant is a day and a time of    *)
(* day; day 0 is a Sunday and days 1..7 are the ISO week that follows it.  *)
(***************************************************************************)
DayTimes == {0, 1}
Days == 0..7
SlotsPerDay == Cardinality(DayTimes)
Instants == 0..(Cardinality(Days) * SlotsPerDay - 1)
Day(t) == t \div SlotsPerDay
\* time.Weekday: Sunday = 0 ... Saturday = 6
Weekday(t) == Day(t) % 7
\* the week number of now.ISOWeek(), counted from the week of day 0
ISOWeek(t) == (Day(t) + 6) \div 7
Weeks == {ISOWeek(t) : t \in Instants}
\* now.AddDate(0, 0, -int(now.Weekday())), processor.go:147
WeekStart(now) == now - Weekday(now) * SlotsPerDay

StoryPointValues == {5}
Tasks == [completedAt : Instants, points : StoryPointValues]

RECURSIVE SumPoints(_)
SumPoints(tasks) ==
    IF tasks = {} THEN 0
    ELSE LET t == CHOOSE x \in tasks : TRUE IN t.points + SumPoints(tasks \ {t})

\* float64(totalPoints) / float64(n), as the fraction it is the quotient of
VelocityUnsmoothed(totalPoints, n) == [num |-> totalPoints, den |-> n]
\* float64(totalPoints) / float64(len(completedTasks)+1), processor.go:160
Velocity(totalPoints, n) == [num |-> totalPoints, den |-> n + 1]

\* the rows of the week already in the table
RowsOf(rows, week) == {i \in 1..Len(rows) : rows[i].SprintWeek = week}

\* db.Create: always a new row
SaveAsInsert(rows, row) == Append(rows, row)
\* db.Save of a velocity metric: the row of its (board, sprint week) is
\* replaced if there is one, inserted otherwise
Save(rows, row) ==
    IF RowsOf(rows, row.SprintWeek) = {} THEN Append(rows, row)
    ELSE LET i == CHOOSE k \in RowsOf(rows, row.SprintWeek) : TRUE
         IN  [rows EXCEPT ![i] = row]

\* updateVelocityMetrics, lines 139-176: the tasks counted and the row saved
CompletedTasks(tasks, now) == {t \in tasks : t.completedAt >= WeekStart(now)}

VelocityMetric(tasks, now) ==
    LET completedTasks == CompletedTasks(tasks, now)
        totalPoints == SumPoints(completedTasks)
    IN  [SprintWeek |-> ISOWeek(now),
         Velocity |-> Velocity(totalPoints, Cardinality(completedTasks)),
         Completed |-> Cardinality(completedTasks),
         TotalPoints |-> totalPoints,
         Throughput |-> Cardinality(completedTasks),
         CycleTime |-> "zero"]

updateVelocityMetrics(rows, tasks, now) == Save(rows, VelocityMetric(tasks, now))

\* updateCycleTimeMetrics, lines 183-228: nothing without completed tasks;
\* otherwise the week's row gets the average cycle time, a new row having
\* zero in every other field
updateCycleTimeMetrics(rows, tasks, now) ==
    IF tasks = {} THEN rows
    ELSE IF RowsOf(rows, ISOWeek(now)) = {}
    THEN Save(rows, [SprintWeek |-> ISOWeek(now), Velocity |-> [num |-> 0, den |-> 1],
                     Completed |-> 0, TotalPoints |-> 0, Throughput |-> 0,
                     CycleTime |-> "average"])
    ELSE LET i == CHOOSE k \in RowsOf(rows, ISOWeek(now)) : TRUE
         IN  Save(rows, [rows[i] EXCEPT !.CycleTime = "average"])

\* the handlers that end in updateVelocityMetrics, lines 90-102 and 114-117
RecomputesVelocity(event) ==
    \/ event.Type \in {"task.created", "task.deleted"}
    \/ event.Type = "task.updated" /\ event.status = "completed"

\* the velocity_metrics table after a handling of event that ended in outcome
Projected(event, outcome, rows, tasks, now) ==
    IF outcome # "ok" THEN rows
    ELSE IF RecomputesVelocity(event) THEN updateVelocityMetrics(rows, tasks, now)
    ELSE IF event.Type = "task.moved" THEN updateCycleTimeMetrics(rows, tasks, now)
    ELSE rows

NeverWritten == [w \in Weeks |-> -1]

BasisAfter(event, outcome, tasks, now) ==
    IF outcome = "ok" /\ RecomputesVelocity(event)
    THEN [basis EXCEPT ![ISOWeek(now)] = Cardinality(tasks)]
    ELSE basis

MetricsInit ==
    /\ clock = 0
    /\ doneTasks = {}
    /\ velocityRows = <<>>
    /\ basis = NeverWritten

\* a row of the tasks table, as far as its place on the board goes
Row(column, position) == [column |-> column, position |-> position]

TaskIds == 1..MaxTasks

\* the tasks table of a board whose columns were filled one by one: the tasks
\* are numbered column by column, each column's positions are 0..n-1
TaskRows(counts) ==
    LET first == [c \in ColumnIds |->
                    CASE c = "backlog" -> 0
                      [] c = "progress" -> counts["backlog"]
                      [] c = "review" -> counts["backlog"] + counts["progress"]]
        columnOf(id) == CHOOSE c \in ColumnIds : id - first[c] \in 1..counts[c]
    IN  [id \in 1..(counts["backlog"] + counts["progress"] + counts["review"]) |->
            Row(columnOf(id), id - first[columnOf(id)] - 1)]

\* the positions CreateTask gives the tasks of a column filled one by one
Dense(counts) == [c \in ColumnIds |-> [i \in 1..counts[c] |-> i - 1]]

DbInit ==
    /\ taskCount = [c \in ColumnIds |-> IF c = "backlog" THEN 1 ELSE 0]
    /\ positions = Dense(taskCount)
    /\ taskTable = TaskRows(taskCount)
    /\ risks = {}
    /\ MetricsInit

(***************************************************************************)
(* The goroutines of the agent that touch pendingActions and lastAnalysis, *)
(* as the sequence of lock operations and accesses each one executes.      *)
(***************************************************************************)
Goroutines == {"consumeEvents", "runPeriodicAnalysis", "executeActions",
               "health", "metrics"}

Step(op, field) == [op |-> op, field |-> field]

\* queueAction: Lock, pendingActions[action.ID] = action, deferred Unlock
queueActionSteps ==
    <<Step("Lock", ""), Step("write", "pendingActions"), Step("Unlock", "")>>

\* removeAction: Lock, delete(pendingActions, actionID), deferred Unlock
removeActionSteps ==
    <<Step("Lock", ""), Step("write", "pendingActions"), Step("Unlock", "")>>

\* one tick of runPeriodicAnalysis: analyzeBoardHealth queues an action, then
\* a.lastAnalysis = time.Now()
runPeriodicAnalysisSteps ==
    queueActionSteps \o <<Step("write", "lastAnalysis")>>

\* executePendingActions: the snapshot, a requeue of a failed action and the
\* removal of a finished one
executePendingActionsSteps ==
    <<Step("Lock", ""), Step("read", "pendingActions"), Step("Unlock", ""),
      Step("Lock", ""), Step("write", "pendingActions"), Step("Unlock", "")>>
    \o removeActionSteps

\* GET /health
healthSteps ==
    <<Step("read", "lastAnalysis"), Step("read", "pendingActions")>>

\* GET /metrics
metricsSteps ==
    <<Step("RLock", ""), Step("read", "pendingActions"), Step("RUnlock", ""),
      Step("read", "lastAnalysis")>>

Code ==
    [consumeEvents       |-> queueActionSteps,
     runPeriodicAnalysis |-> runPeriodicAnalysisSteps,
     executeActions      |-> executePendingActionsSteps,
     health              |-> healthSteps,
     metrics             |-> metricsSteps]

Unlocked == [writer |-> "none", readers |-> {}]

NoAccess == [task |-> "none", field |-> "", kind |-> "", held |-> FALSE]

\* sync.RWMutex: a write needs the write lock, a read either lock
Holds(g, kind) ==
    \/ mutex.writer = g
    \/ kind = "read" /\ g \in mutex.readers

(***************************************************************************)
(* The background loops of the two processes.                              *)
(***************************************************************************)
Procs == {"agent", "backend"}

Loops == {"consumeEvents", "runPeriodicAnalysis", "executeActions", "ConsumeEvents"}

Timers == {"runPeriodicAnalysis", "executeActions"}

ProcOf(l) == IF l = "ConsumeEvents" THEN "backend" ELSE "agent"

\* map[string]interface{}: the nil map
NilMap == [nil |-> TRUE, m |-> <<>>]

\* time.Time: the instant and whether it carries a monotonic clock reading
Time(instant, mono) == [instant |-> instant, mono |-> mono]

NoEvent ==
    [ID |-> "", Type |-> "", BoardID |-> "", UserID |-> "", Data |-> NilMap,
     Timestamp |-> Time("", FALSE)]

NoBody == [t |-> "none"]

Response(handler, id, code, eventError) ==
    [handler |-> handler, id |-> id, code |-> code, eventError |-> eventError]

NoResponse == [handler |-> "", id |-> 0, code |-> 0, eventError |-> FALSE]

\* the two requests in flight; a request that has not arrived yet is "new"
Requests == {1, 2}

Request(handler, at, task, oldColumn, oldPosition, column, position) ==
    [handler |-> handler, at |-> at, task |-> task,
     oldColumn |-> oldColumn, oldPosition |-> oldPosition,
     column |-> column, position |-> position,
     committed |-> FALSE, code |-> 0, event |-> ""]

NoRequest == Request("", "new", 0, "", 0, "", 0)

\* the clients that connect, and the boards whose rooms they join
WsClients == {"c1", "c2"}
BoardRooms == {"b1", "b2"}

\* NewHub, part_001:47-56: no client, no room; and per client its roomID, where
\* its readPump stands, the messages in its send channel, and as history how
\* often the channel was closed and whether a send met the closed channel
NoHub ==
    [up |-> TRUE, clients |-> {}, rooms |-> [room \in BoardRooms |-> {}],
     roomID |-> [c \in WsClients |-> ""], readPump |-> [c \in WsClients |-> "none"],
     buffered |-> [c \in WsClients |-> 0], closes |-> [c \in WsClients |-> 0],
     sentOnClosed |-> FALSE]

TasksInit ==
    /\ pc = [g \in Goroutines |-> 1]
    /\ mutex = Unlocked
    /\ access = NoAccess
    /\ quit = {}
    /\ ctxDone = FALSE
    /\ exited = {}
    /\ loop = [l \in Loops |-> "select"]
    /\ agentActions = <<>>
    /\ response = NoResponse
    /\ sent = NoEvent
    /\ wire = NoBody
    /\ handed = NoEvent
    /\ requests = [r \in Requests |-> NoRequest]
    /\ boardTasks = {}
    /\ burndownData = <<>>
    /\ suggestions = <<>>
    /\ hub = NoHub
    /\ columns = <<>>

AgentInit ==
    /\ TasksInit
    /\ BusInit
    /\ DbInit
    /\ agentUp = TRUE
    /\ isActive = TRUE
    /\ pendingActions = <<>>
    /\ nextId = 0
    /\ actions = <<>>
    /\ attempted = {}
    /\ attempts = [id \in 1..MaxActions |-> <<>>]
    /\ finished = [id \in 1..MaxActions |-> NotFinished]
    /\ analysis = <<>>
    /\ alertUser = NoUser

\* consumeEvents, lines 641-655, as far as the agent's own state goes: one
\* alert is handled; a panic in the handler ends the process.
HandleAlert(r) ==
    /\ agentUp' = (r.outcome # "panic")
    /\ pendingActions' = QueueAll(pendingActions, r.queued, nextId)
    /\ nextId' = nextId + Len(r.queued)
    /\ UNCHANGED <<isActive, actions, attempted, attempts, finished, analysis, alertUser>>

AlertIntake(alert, workload) ==
    /\ agentUp
    /\ nextId < MaxActions
    /\ HandleAlert(handleRiskAlert(alert, workload))
    /\ UNCHANGED busVars
    /\ UNCHANGED procVars
    /\ UNCHANGED metricVars
    /\ UNCHANGED taskVars

\* Only handleOverloadAlert asks for the workload, and only after its assertion.
NoWorkload == [ok |-> FALSE, rows |-> <<>>]

WorkloadsFor(alert, rows, n) ==
    IF alert.Type = "overload" /\ alert.HasFields THEN Workloads(rows, n) ELSE {NoWorkload}

ConsumeAlert ==
    \E alert \in Alerts :
        \E workload \in WorkloadsFor(alert, AgentPerf, AgentTeam) : AlertIntake(alert, workload)

\* executeActions, lines 938-943, and executePendingActions, lines 949-963:
\* a tick while active copies the map in some order and sorts the copy.
ExecuteStart ==
    /\ agentUp
    /\ isActive
    /\ actions = <<>>
    /\ \E order \in Orders(DOMAIN pendingActions) :
           actions' = SortByPriority([i \in 1..Len(order) |-> pendingActions[order[i]]])
    /\ attempted' = {}
    /\ UNCHANGED <<agentUp, isActive, pendingActions, nextId, attempts, finished,
                   analysis, alertUser>>
    /\ UNCHANGED busVars
    /\ UNCHANGED procVars
    /\ UNCHANGED metricVars
    /\ UNCHANGED taskVars

\* executePendingActions, lines 965-983: one iteration of the loop over the
\* sorted copy; ok is what executeAction returned (nil or an error).
Attempt(ok) ==
    /\ agentUp
    /\ actions # <<>>
    /\ LET action == Head(actions)
       IN    /\ attempts' = [attempts EXCEPT ![action.ID] = Append(@, ok)]
             /\ attempted' = attempted \cup {action.ID}
             /\ pendingActions' = IF ok THEN AfterSuccess(pendingActions, action)
                                  ELSE AfterFailure(pendingActions, action)
             /\ finished' = IF action.ID \in DOMAIN pendingActions'
                            THEN finished
                            ELSE [finished EXCEPT ![action.ID] =
                                     [outcome |-> IF ok THEN "completed" ELSE "dropped",
                                      RetryCount |-> IF ok THEN action.RetryCount
                                                     ELSE action.RetryCount + 1]]
    /\ actions' = Tail(actions)
    /\ UNCHANGED <<agentUp, isActive, nextId, analysis, alertUser>>
    /\ UNCHANGED busVars
    /\ UNCHANGED procVars
    /\ UNCHANGED metricVars
    /\ UNCHANGED taskVars

\* the same with any API behind APIBaseURL, reachable or not
ExecuteStep == \E ok \in BOOLEAN : Attempt(ok)

\* POST /activate and POST /deactivate, lines 1052-1060
Activate ==
    /\ agentUp
    /\ ~isActive
    /\ isActive' = TRUE
    /\ UNCHANGED <<agentUp, pendingActions, nextId, actions, attempted, attempts,
                   finished, analysis, alertUser>>
    /\ UNCHANGED busVars
    /\ UNCHANGED procVars
    /\ UNCHANGED metricVars
    /\ UNCHANGED taskVars

Deactivate ==
    /\ agentUp
    /\ isActive
    /\ isActive' = FALSE
    /\ UNCHANGED <<agentUp, pendingActions, nextId, actions, attempted, attempts,
                   finished, analysis, alertUser>>
    /\ UNCHANGED busVars
    /\ UNCHANGED procVars
    /\ UNCHANGED metricVars
    /\ UNCHANGED taskVars

AgentNext ==
    \/ ConsumeAlert
    \/ ExecuteStart
    \/ ExecuteStep
    \/ Activate
    \/ Deactivate

SpecAgent == AgentInit /\ [][AgentNext]_vars


(***************************************************************************)
(* Messages.  A body is JSON or not; a JSON body carries the fields the    *)
(* consumer's struct decodes.  An event carries its type, boardId, userId  *)
(* and data.status (task.updated only).                                    *)
(***************************************************************************)
\* the cases of handleEvent's switch
DispatchTypes ==
    {"task.created", "task.updated", "task.moved", "task.deleted",
     "board.created", "board.updated", "column.created", "column.updated"}

BoardUUID == "7d9f0c1e-board"
UserUUID == "3a6b2f4d-user"

\* uuid.Parse succeeds
IsUUID(str) == str \in {BoardUUID, UserUUID}

Event(type, boardId, userId, status) ==
    [Type |-> type, BoardID |-> boardId, UserID |-> userId, status |-> status]

Body(json, payload) == [json |-> json, payload |-> payload]

Malformed == Body(FALSE, Event("", "", "", ""))

\* json.Unmarshal into the consumer's struct
Unmarshal(body) == [ok |-> body.json, value |-> body.payload]

\* The events the bus specification publishes: a type of each kind of handler
\* (with and without database work, and absent from the switch), with ids that
\* parse and ids that do not.
BusEventBodies ==
    {Malformed}
    \cup {Body(TRUE, Event(t, BoardUUID, UserUUID, "")) :
            t \in {"task.moved", "board.updated", "board.deleted", "agent.action.executed"}}
    \cup {Body(TRUE, Event("task.updated", BoardUUID, UserUUID, st)) :
            st \in {"active", "completed"}}
    \cup {Body(TRUE, Event(t, "not-a-uuid", UserUUID, "")) : t \in {"task.moved", "board.deleted"}}
    \cup {Body(TRUE, Event(t, BoardUUID, "system", "")) : t \in {"task.moved", "board.deleted"}}

BusAlertBodies ==
    {Malformed} \cup {Body(TRUE, a) : a \in {x \in Alerts : x.UserId \in {NoUser, "u1"}}}

(***************************************************************************)
(* The event processor.  storeOk and projOk say whether the database       *)
(* accepted storeEvent's INSERT and the projection's queries and writes.   *)
(***************************************************************************)
\* storeEvent, lines 68-88
storeEvent(event, storeOk) ==
    IF ~IsUUID(event.BoardID) THEN "err"
    ELSE IF ~IsUUID(event.UserID) THEN "err"
    ELSE IF storeOk THEN "ok" ELSE "err"

\* a projection handler that goes to the database
Projection(projOk) == IF projOk THEN "ok" ELSE "err"

\* the switch of handleEvent, lines 45-65, with an unknown type an error
dispatchStrict(event, projOk) ==
    IF event.Type \in DispatchTypes THEN Projection(projOk) ELSE "err"
\* the switch of handleEvent, lines 45-65, and the handlers of lines 90-137
dispatch(event, projOk) ==
    CASE event.Type = "task.created" -> Projection(projOk)
      [] event.Type = "task.updated" ->
            IF event.status = "completed" THEN Projection(projOk) ELSE "ok"
      [] event.Type = "task.moved" -> Projection(projOk)
      [] event.Type = "task.deleted" -> Projection(projOk)
      [] event.Type = "board.created" -> Projection(projOk)
      [] event.Type = "board.updated" -> "ok"
      [] event.Type = "column.created" -> "ok"
      [] event.Type = "column.updated" -> Projection(projOk)
      [] OTHER -> "ok"

\* the columns analyzeBottlenecks finds over their limit, line 244
OverLimit(counts) == {c \in ColumnIds : WIPLimit[c] > 0 /\ counts[c] > WIPLimit[c]}

\* the RiskPrediction of lines 246-259
RiskPrediction(column, counts) ==
    [Type |-> "bottleneck", Level |-> "high", Score |-> BottleneckScore,
     columnId |-> column, taskCount |-> counts[column], wipLimit |-> WIPLimit[column],
     overflowBy |-> counts[column] - WIPLimit[column]]

\* analyzeBottlenecks, lines 243-265: the rows it adds; a failed INSERT
\* (column not in inserted) is logged and the loop goes on
analyzeBottlenecks(counts, inserted) ==
    {RiskPrediction(c, counts) : c \in OverLimit(counts) \cap inserted}

\* handleTaskMoved and handleColumnUpdated end in analyzeBottlenecks
Analyzes(event) == event.Type \in {"task.moved", "column.updated"}

handleEvent(event, storeOk, projOk) ==
    IF storeEvent(event, storeOk) = "err"
    THEN [outcome |-> "err", stored |-> FALSE, queued |-> <<>>]
    ELSE [outcome |-> dispatch(event, projOk), stored |-> TRUE, queued |-> <<>>]

\* the INSERTs of risk predictions that can succeed or fail in this handling
InsertOutcomes(u, counts) ==
    IF u.ok /\ Analyzes(u.value) THEN SUBSET OverLimit(counts) ELSE {{}}

NotHandled == [outcome |-> "none", stored |-> FALSE, queued |-> <<>>]

(***************************************************************************)
(* The consumer loops and the broker.  A loop iteration sends the          *)
(* acknowledgments below on its delivery; the broker drops an acknowledged *)
(* or discarded message and puts a requeued one, or one whose consumer     *)
(* died before acknowledging, back in the queue.                           *)
(***************************************************************************)
\* ConsumeEvents with Nack(false, false) on a handler error
EventAcksNoRequeue(unmarshalOk, outcome) ==
    IF ~unmarshalOk THEN <<"nack_discard">>
    ELSE IF outcome = "err" THEN <<"nack_discard">>
    ELSE <<"ack">>
\* RabbitMQ.ConsumeEvents, lines 150-172
EventAcks(unmarshalOk, outcome) ==
    IF ~unmarshalOk THEN <<"nack_discard">>
    ELSE IF outcome = "err" THEN <<"nack_requeue">>
    ELSE <<"ack">>

\* AllocatorAgent.consumeEvents, lines 641-655; a panic leaves the loop
AlertAcks(unmarshalOk, outcome) ==
    IF ~unmarshalOk THEN <<"nack_discard">>
    ELSE IF outcome = "panic" THEN <<>>
    ELSE IF outcome = "err" THEN <<"nack_requeue">>
    ELSE <<"ack">>

InsertAt(queue, pos, id) ==
    SubSeq(queue, 1, pos) \o <<id>> \o SubSeq(queue, pos + 1, Len(queue))

\* a broker that puts every negatively acknowledged message back
RequeuedOnAnyNack(acks) == acks = <<>> \/ acks[1] # "ack"
Requeued(acks) == acks = <<>> \/ acks[1] = "nack_requeue"

Settle(rest, id, acks, pos) == IF Requeued(acks) THEN InsertAt(rest, pos, id) ELSE rest

StatusAfter(acks) ==
    IF Requeued(acks) THEN "queued"
    ELSE IF acks[1] = "ack" THEN "acked" ELSE "discarded"

Sat(n) == IF n < MaxSeen THEN n + 1 ELSE MaxSeen

Delivered(id, u, h, acks) ==
    [id |-> id, unmarshalOk |-> u.ok, Type |-> IF u.ok THEN u.value.Type ELSE "",
     stored |-> h.stored, handler |-> h.outcome, acks |-> acks]

Track(id, h, acks) ==
    [msgs EXCEPT ![id].status = StatusAfter(acks),
                 ![id].errs = IF h.outcome = "err" THEN Sat(@) ELSE @,
                 ![id].ok = @ \/ h.outcome = "ok"]

\* One iteration of the loop of RabbitMQ.ConsumeEvents with the processor's
\* handleEvent as handler.
ConsumeEvents ==
    /\ eventQueue # <<>>
    /\ LET id == Head(eventQueue)
           rest == Tail(eventQueue)
           u == Unmarshal(msgs[id].body)
       IN  \E storeOk, projOk \in BOOLEAN, pos \in 0..Len(rest),
              inserted \in InsertOutcomes(u, taskCount) :
             LET h == IF u.ok THEN handleEvent(u.value, storeOk, projOk) ELSE NotHandled
                 acks == EventAcks(u.ok, h.outcome)
             IN  /\ eventQueue' = Settle(rest, id, acks, pos)
                 /\ msgs' = Track(id, h, acks)
                 /\ eventLog' = [eventLog EXCEPT ![id].processor =
                                    IF h.stored THEN Sat(@) ELSE @]
                 /\ lastDelivery' = [lastDelivery EXCEPT !.events = Delivered(id, u, h, acks)]
                 /\ risks' = IF h.outcome = "ok" /\ Analyzes(u.value)
                              THEN risks \cup analyzeBottlenecks(taskCount, inserted)
                              ELSE risks
                 /\ velocityRows' = IF u.ok
                                     THEN Projected(u.value, h.outcome, velocityRows,
                                                    doneTasks, clock)
                                     ELSE velocityRows
                 /\ basis' = IF u.ok THEN BasisAfter(u.value, h.outcome, doneTasks, clock)
                              ELSE basis
    /\ UNCHANGED <<riskQueue, taskCount, positions, clock, doneTasks>>
    /\ UNCHANGED taskVars
    /\ UNCHANGED agentVars

\* One iteration of the loop of AllocatorAgent.consumeEvents.
\* The iteration on the head of the queue, given what analyzeWorkload returns
\* to the handler and where the broker puts a requeued message.
AgentDeliver(workload, pos) ==
    LET id == Head(riskQueue)
        rest == Tail(riskQueue)
        u == Unmarshal(msgs[id].body)
        h == IF u.ok THEN handleRiskAlert(u.value, workload) @@ [stored |-> FALSE]
             ELSE NotHandled
        acks == AlertAcks(u.ok, h.outcome)
    IN  /\ riskQueue' = Settle(rest, id, acks, pos)
        /\ msgs' = Track(id, h, acks)
        /\ lastDelivery' = [lastDelivery EXCEPT !.risk = Delivered(id, u, h, acks)]
        /\ HandleAlert(h)

AgentConsumeEvents ==
    /\ agentUp
    /\ riskQueue # <<>>
    /\ LET u == Unmarshal(msgs[Head(riskQueue)].body)
       IN  \E workload \in (IF u.ok THEN WorkloadsFor(u.value, AgentPerf, AgentTeam)
                            ELSE {NoWorkload}),
              pos \in 0..(Len(riskQueue) - 1) :
             AgentDeliver(workload, pos)
    /\ UNCHANGED <<eventQueue, eventLog>>
    /\ UNCHANGED procVars
    /\ UNCHANGED metricVars
    /\ UNCHANGED taskVars

\* A producer hands a message to the exchange: PublishEvent succeeds (pubOk)
\* and the message is routed to its queue, or fails and the message is lost.
\* logged says whether the producer wrote the event to the events table first.
Publish(origin, queue, body, pubOk, logged) ==
    /\ Len(msgs) < MaxMsgs
    /\ msgs' = Append(msgs, [queue |-> queue, origin |-> origin, body |-> body,
                             status |-> IF pubOk THEN "queued" ELSE "lost",
                             errs |-> 0, ok |-> FALSE])
    /\ eventLog' = Append(eventLog, [api |-> IF logged THEN 1 ELSE 0, processor |-> 0])
    /\ eventQueue' = IF pubOk /\ queue = "events" THEN Append(eventQueue, Len(msgs) + 1)
                     ELSE eventQueue
    /\ riskQueue' = IF pubOk /\ queue = "risk" THEN Append(riskQueue, Len(msgs) + 1)
                    ELSE riskQueue
    /\ UNCHANGED lastDelivery
    /\ UNCHANGED agentVars

\* Any producer bound to kanopt.events with the routing key kanopt.event.
PublishEventMessage ==
    /\ \E body \in BusEventBodies : Publish("external", "events", body, TRUE, FALSE)
    /\ UNCHANGED procVars
    /\ UNCHANGED metricVars
    /\ UNCHANGED taskVars

\* Any producer bound to kanopt.risk with a routing key risk.*.
PublishRiskAlert ==
    /\ \E body \in BusAlertBodies : Publish("external", "risk", body, TRUE, FALSE)
    /\ UNCHANGED procVars
    /\ UNCHANGED metricVars
    /\ UNCHANGED taskVars

BusNext ==
    \/ PublishEventMessage
    \/ PublishRiskAlert
    \/ ConsumeEvents
    \/ AgentConsumeEvents

SpecBus == AgentInit /\ [][BusNext]_vars

\* The event queue alone, with a consumer goroutine that keeps taking
\* deliveries while the queue has any.
QueueEventBodies ==
    {Malformed} \cup {Body(TRUE, Event(t, BoardUUID, UserUUID, "")) :
                        t \in {"board.updated", "agent.action.executed"}}

PublishQueueEvent ==
    /\ \E body \in QueueEventBodies : Publish("external", "events", body, TRUE, FALSE)
    /\ UNCHANGED procVars
    /\ UNCHANGED metricVars
    /\ UNCHANGED taskVars

EventQueueNext == PublishQueueEvent \/ ConsumeEvents

SpecEventQueue == AgentInit /\ [][EventQueueNext]_vars /\ WF_vars(ConsumeEvents)

(***************************************************************************)
(* The API's mutating handlers.  Each commits its mutation, then publishes *)
(* its event; a handler whose mutation fails returns before it publishes   *)
(* and changes nothing.                                                    *)
(***************************************************************************)
ApiEvent(type, status) == Body(TRUE, Event(type, BoardUUID, UserUUID, status))

Emit(handler, type, status, pubOk, logged) ==
    /\ Len(msgs) < MaxEmitted
    /\ Publish(handler, "events", ApiEvent(type, status), pubOk, logged)

\* the status each handler answers with after its mutation
SuccessStatus ==
    [CreateBoard |-> 201, UpdateBoard |-> 200, DeleteBoard |-> 200,
     CreateTask |-> 201, UpdateTask |-> 200, DeleteTask |-> 200, MoveTask |-> 200,
     ApproveSuggestion |-> 200, RejectSuggestion |-> 200, ExecuteAgentAction |-> 200,
     CreateEvent |-> 201]

\* a handler that fails the request when its event cannot be published
RespondFatal(handler, pubOk) ==
    /\ response' = Response(handler, 0, IF pubOk THEN SuccessStatus[handler] ELSE 500, ~pubOk)
    /\ UNCHANGED <<lockVars, stopVars, agentActions, tripVars, moveVars, restVars>>
\* if err := rabbitmq.PublishEvent(event); err != nil { c.Header("X-Event-Error", ...) }
\* and then c.JSON with the handler's status
Respond(handler, pubOk) ==
    /\ response' = Response(handler, 0, SuccessStatus[handler], ~pubOk)
    /\ UNCHANGED <<lockVars, stopVars, agentActions, tripVars, moveVars, restVars>>

TotalTasks(counts) == counts["backlog"] + counts["progress"] + counts["review"]

\* the handlers that leave the tasks of the board where they are, with the
\* event type each publishes
Emits ==
    [CreateBoard |-> "board.created", UpdateBoard |-> "board.updated",
     UpdateTask |-> "task.updated", ApproveSuggestion |-> "suggestion.approved",
     RejectSuggestion |-> "suggestion.rejected",
     ExecuteAgentAction |-> "agent.action.executed"]

\* UpdateTask, tasks.go:158-162
StatusesOf(handler) == IF handler = "UpdateTask" THEN {"active", "completed"} ELSE {""}

\* UpdateTask with completedAt set stamps the task completed, tasks.go:157-161
Completing(handler, status, done) ==
    IF handler = "UpdateTask" /\ status = "completed"
    THEN {done \cup {t} : t \in {x \in Tasks : /\ x.completedAt <= clock
                                               /\ Cardinality(done \cup {x}) <= MaxDone}}
    ELSE {done}

ApiMutation ==
    /\ \E handler \in DOMAIN Emits, pubOk \in BOOLEAN :
         \E status \in StatusesOf(handler) :
            /\ Emit(handler, Emits[handler], status, pubOk, FALSE)
            /\ Respond(handler, pubOk)
            /\ doneTasks' \in Completing(handler, status, doneTasks)
    /\ UNCHANGED procVars
    /\ UNCHANGED <<clock, velocityRows, basis>>

\* The positions of a column are kept as an ascending sequence: the tasks of
\* a column differ, for the handlers below, only in their position.
RECURSIVE InsertSorted(_, _)
InsertSorted(seq, p) ==
    IF seq = <<>> THEN <<p>>
    ELSE IF p <= Head(seq) THEN <<p>> \o seq
    ELSE <<Head(seq)>> \o InsertSorted(Tail(seq), p)

RemoveAt(seq, i) == SubSeq(seq, 1, i - 1) \o SubSeq(seq, i + 1, Len(seq))

\* COALESCE(MAX(position), -1), tasks.go:55-56
MaxPosition(seq) == IF seq = <<>> THEN -1 ELSE seq[Len(seq)]

\* UPDATE position = position - 1 WHERE position > oldPosition, tasks.go:282-285
ShiftDown(seq, oldPosition) ==
    [i \in 1..Len(seq) |-> IF seq[i] > oldPosition THEN seq[i] - 1 ELSE seq[i]]

\* UPDATE position = position + 1 WHERE position >= newPosition, tasks.go:294-297
ShiftUp(seq, newPosition) ==
    [i \in 1..Len(seq) |-> IF seq[i] >= newPosition THEN seq[i] + 1 ELSE seq[i]]

\* the positions MoveTask accepts: binding:"required" rejects 0 (tasks.go:254)
MovePositions == (-1..MaxTasks) \ {0}

\* the tasks table after CreateTask into column
CreatedAt(pos, column) ==
    [pos EXCEPT ![column] = Append(@, MaxPosition(@) + 1)]

\* the tasks table after DeleteTask of the i-th task of column
DeletedAt(pos, column, i) == [pos EXCEPT ![column] = RemoveAt(@, i)]

\* the tasks table after MoveTask of the i-th task of from to newPosition in to
MovedTo(pos, from, i, to, newPosition) ==
    LET oldPosition == pos[from][i]
        left == RemoveAt(pos[from], i)
    IN  IF from # to
        THEN [pos EXCEPT ![from] = ShiftDown(left, oldPosition),
                         ![to] = InsertSorted(ShiftUp(@, newPosition), newPosition)]
        ELSE [pos EXCEPT ![to] = InsertSorted(ShiftUp(left, newPosition), newPosition)]

CreateTask ==
    /\ TotalTasks(taskCount) < MaxTasks
    /\ \E column \in ColumnIds, pubOk \in BOOLEAN :
         /\ taskCount' = [taskCount EXCEPT ![column] = @ + 1]
         /\ positions' = CreatedAt(positions, column)
         /\ Emit("CreateTask", "task.created", "", pubOk, FALSE)
         /\ Respond("CreateTask", pubOk)
    /\ UNCHANGED risks
    /\ UNCHANGED metricVars

DeleteTask ==
    /\ \E column \in ColumnIds, pubOk \in BOOLEAN :
         /\ taskCount[column] > 0
         /\ taskCount' = [taskCount EXCEPT ![column] = @ - 1]
         /\ \E i \in 1..Len(positions[column]) :
               positions' = DeletedAt(positions, column, i)
         /\ Emit("DeleteTask", "task.deleted", "", pubOk, FALSE)
         /\ Respond("DeleteTask", pubOk)
    /\ doneTasks' \in {doneTasks} \cup {doneTasks \ {t} : t \in doneTasks}
    /\ UNCHANGED risks
    /\ UNCHANGED <<clock, velocityRows, basis>>

MoveTask ==
    /\ \E from, to \in ColumnIds, pubOk \in BOOLEAN :
         /\ taskCount[from] > 0
         /\ taskCount' = [c \in ColumnIds |->
                            taskCount[c] - (IF c = from THEN 1 ELSE 0)
                                         + (IF c = to THEN 1 ELSE 0)]
         /\ \E i \in 1..Len(positions[from]), newPosition \in MovePositions :
               positions' = MovedTo(positions, from, i, to, newPosition)
         /\ Emit("MoveTask", "task.moved", "", pubOk, FALSE)
         /\ Respond("MoveTask", pubOk)
    /\ UNCHANGED risks
    /\ UNCHANGED metricVars

DeleteBoard ==
    /\ \E pubOk \in BOOLEAN :
         /\ taskCount' = [c \in ColumnIds |-> 0]
         /\ positions' = [c \in ColumnIds |-> <<>>]
         /\ Emit("DeleteBoard", "board.deleted", "", pubOk, FALSE)
         /\ Respond("DeleteBoard", pubOk)
    /\ doneTasks' = {}
    /\ UNCHANGED risks
    /\ UNCHANGED <<clock, velocityRows, basis>>

\* POST /api/events with any type: the only handler that writes the events
\* table itself
IngestTypes == {"task.moved", "custom.recorded"}

CreateEvent ==
    /\ \E type \in IngestTypes, pubOk \in BOOLEAN :
         /\ Emit("CreateEvent", type, "", pubOk, TRUE)
         /\ Respond("CreateEvent", pubOk)
    /\ UNCHANGED procVars
    /\ UNCHANGED metricVars

ProducerNext ==
    \/ ApiMutation
    \/ CreateTask
    \/ DeleteTask
    \/ MoveTask
    \/ DeleteBoard
    \/ CreateEvent
    \/ ConsumeEvents

SpecProducer == AgentInit /\ [][ProducerNext]_vars

(***************************************************************************)
(* The processor on task.moved events: any board of at most MaxTasks       *)
(* tasks, MoveTask requests and the consumer loop.                         *)
(***************************************************************************)
Boards == {b \in [ColumnIds -> 0..MaxTasks] : TotalTasks(b) \in 1..MaxTasks}

ProcessorInit ==
    /\ TasksInit
    /\ BusInit
    /\ agentUp = TRUE
    /\ isActive = TRUE
    /\ pendingActions = <<>>
    /\ nextId = 0
    /\ actions = <<>>
    /\ attempted = {}
    /\ attempts = [id \in 1..MaxActions |-> <<>>]
    /\ finished = [id \in 1..MaxActions |-> NotFinished]
    /\ analysis = <<>>
    /\ alertUser = NoUser
    /\ taskCount \in Boards
    /\ positions = Dense(taskCount)
    /\ taskTable = TaskRows(taskCount)
    /\ risks = {}
    /\ MetricsInit

ProcessorNext ==
    \/ MoveTask
    \/ ConsumeEvents

SpecProcessor == ProcessorInit /\ [][ProcessorNext]_vars

\* The same with the consumer loop running whenever a message is queued: the
\* goroutine of EventProcessor.Start blocks only on an empty queue.
SpecProcessorFair == SpecProcessor /\ WF_vars(ConsumeEvents)

(***************************************************************************)
(* The metric projections: any set of completed tasks, the passing of time *)
(* and the processor's dispatch of task events.                            *)
(***************************************************************************)
TaskEvents ==
    {Event(t, BoardUUID, UserUUID, "") : t \in {"task.created", "task.deleted", "task.moved"}}
    \cup {Event("task.updated", BoardUUID, UserUUID, st) : st \in {"active", "completed"}}

VelocityEvents == {e \in TaskEvents : RecomputesVelocity(e)}

VelocityInit ==
    /\ TasksInit
    /\ BusInit
    /\ agentUp = TRUE
    /\ isActive = TRUE
    /\ pendingActions = <<>>
    /\ nextId = 0
    /\ actions = <<>>
    /\ attempted = {}
    /\ attempts = [id \in 1..MaxActions |-> <<>>]
    /\ finished = [id \in 1..MaxActions |-> NotFinished]
    /\ analysis = <<>>
    /\ alertUser = NoUser
    /\ taskCount = [c \in ColumnIds |-> IF c = "backlog" THEN 1 ELSE 0]
    /\ positions = Dense(taskCount)
    /\ taskTable = TaskRows(taskCount)
    /\ risks = {}
    /\ clock \in Instants
    /\ doneTasks \in {done \in SUBSET {t \in Tasks : t.completedAt <= clock} :
                         Cardinality(done) <= MaxDone}
    /\ velocityRows = <<>>
    /\ basis = NeverWritten

Tick ==
    /\ clock + 1 \in Instants
    /\ clock' = clock + 1
    /\ UNCHANGED <<doneTasks, velocityRows, basis>>
    /\ UNCHANGED <<agentVars, busVars, procVars>>
    /\ UNCHANGED taskVars

\* the switch of handleEvent on a task event, at the present time
Recompute(event, projOk) ==
    LET outcome == dispatch(event, projOk)
    IN  /\ velocityRows' = Projected(event, outcome, velocityRows, doneTasks, clock)
        /\ basis' = BasisAfter(event, outcome, doneTasks, clock)
        /\ risks' = IF outcome = "ok" /\ Analyzes(event)
                     THEN risks \cup analyzeBottlenecks(taskCount, OverLimit(taskCount))
                     ELSE risks
        /\ UNCHANGED <<clock, doneTasks, taskCount, positions>>
        /\ UNCHANGED taskVars
        /\ UNCHANGED <<agentVars, busVars>>

HandleTaskEvent == \E event \in TaskEvents, projOk \in BOOLEAN : Recompute(event, projOk)

VelocityNext ==
    \/ Tick
    \/ HandleTaskEvent

SpecVelocity == VelocityInit /\ [][VelocityNext]_vars

(***************************************************************************)
(* The task handlers on any board whose columns are densely ordered.       *)
(***************************************************************************)
TasksNext ==
    \/ CreateTask
    \/ DeleteTask
    \/ MoveTask

SpecTasks == ProcessorInit /\ [][TasksNext]_vars

(***************************************************************************)
(* One overload alert against one workload snapshot.                       *)
(***************************************************************************)
OverloadInit ==
    /\ TasksInit
    /\ BusInit
    /\ DbInit
    /\ agentUp = TRUE
    /\ isActive = TRUE
    /\ pendingActions = <<>>
    /\ nextId = 0
    /\ actions = <<>>
    /\ attempted = {}
    /\ attempts = [id \in 1..MaxActions |-> <<>>]
    /\ finished = [id \in 1..MaxActions |-> NotFinished]
    /\ analysis \in Snapshots(Perf, MaxTeam)
    /\ alertUser \in Users

OverloadAlert ==
    AlertIntake([Type |-> "overload", HasFields |-> TRUE, UserId |-> alertUser],
                [ok |-> TRUE, rows |-> analysis])

OverloadNext == OverloadAlert

SpecOverload == OverloadInit /\ [][OverloadNext]_vars

(***************************************************************************)
(* One overload alert in the agent's queue, delivered against one workload *)
(* snapshot (or a failing analyzeWorkload) until it is settled.            *)
(***************************************************************************)
OverloadMessage(userID) ==
    [queue |-> "risk", origin |-> "external",
     body |-> Body(TRUE, [Type |-> "overload", HasFields |-> TRUE, UserId |-> userID]),
     status |-> "queued", errs |-> 0, ok |-> FALSE]

OverloadDeliveryInit ==
    /\ TasksInit
    /\ DbInit
    /\ agentUp = TRUE
    /\ isActive = TRUE
    /\ pendingActions = <<>>
    /\ nextId = 0
    /\ actions = <<>>
    /\ attempted = {}
    /\ attempts = [id \in 1..MaxActions |-> <<>>]
    /\ finished = [id \in 1..MaxActions |-> NotFinished]
    /\ analysis \in Snapshots(Perf, MaxTeam)
    /\ alertUser \in Users
    /\ msgs = <<OverloadMessage(alertUser)>>
    /\ eventQueue = <<>>
    /\ riskQueue = <<1>>
    /\ eventLog = <<[api |-> 0, processor |-> 0]>>
    /\ lastDelivery = [events |-> NoDelivery, risk |-> NoDelivery]

OverloadDelivery ==
    /\ agentUp
    /\ riskQueue # <<>>
    /\ \E ok \in BOOLEAN :
         AgentDeliver(IF ok THEN [ok |-> TRUE, rows |-> analysis] ELSE NoWorkload, 0)
    /\ UNCHANGED <<eventQueue, eventLog>>
    /\ UNCHANGED procVars
    /\ UNCHANGED metricVars
    /\ UNCHANGED taskVars

OverloadDeliveryNext == OverloadDelivery

SpecOverloadDelivery == OverloadDeliveryInit /\ [][OverloadDeliveryNext]_vars

(***************************************************************************)
(* The goroutines of the agent, interleaved one step at a time.            *)
(***************************************************************************)
Run(g) ==
    LET s == Code[g][pc[g]]
    IN  /\ agentUp
        /\ CASE s.op = "Lock" ->
                  /\ mutex = Unlocked
                  /\ mutex' = [mutex EXCEPT !.writer = g]
                  /\ UNCHANGED access
             [] s.op = "Unlock" ->
                  /\ mutex' = [mutex EXCEPT !.writer = "none"]
                  /\ UNCHANGED access
             [] s.op = "RLock" ->
                  /\ mutex.writer = "none"
                  /\ mutex' = [mutex EXCEPT !.readers = @ \cup {g}]
                  /\ UNCHANGED access
             [] s.op = "RUnlock" ->
                  /\ mutex' = [mutex EXCEPT !.readers = @ \ {g}]
                  /\ UNCHANGED access
             [] OTHER ->
                  /\ access' = [task |-> g, field |-> s.field, kind |-> s.op,
                                held |-> Holds(g, s.op)]
                  /\ UNCHANGED mutex
        /\ pc' = [pc EXCEPT ![g] = IF pc[g] = Len(Code[g]) THEN 1 ELSE pc[g] + 1]
        /\ UNCHANGED <<agentVars, busVars, procVars, metricVars, stopVars, apiVars, tripVars, moveVars, restVars>>

LocksNext == \E g \in Goroutines : Run(g)

SpecLocks == AgentInit /\ [][LocksNext]_vars

(***************************************************************************)
(* Shutdown: the termination signal, the loops and the end of main.        *)
(***************************************************************************)
\* main of the agent: <-quit, agent.isActive = false, cancel()
\* main of the backend: <-quit; it has no context to cancel
Signal(p) ==
    /\ p \notin quit
    /\ quit' = quit \cup {p}
    /\ IF p = "agent"
       THEN /\ isActive' = FALSE
            /\ ctxDone' = TRUE
       ELSE UNCHANGED <<isActive, ctxDone>>
    /\ UNCHANGED <<exited, loop>>
    /\ UNCHANGED <<agentUp, pendingActions, nextId, actions, attempted, attempts,
                   finished, analysis, alertUser>>
    /\ UNCHANGED <<busVars, procVars, metricVars, lockVars, apiVars, tripVars, moveVars, restVars>>

\* server.Shutdown, then main returns and the process ends
Shutdown(p) ==
    /\ p \in quit
    /\ p \notin exited
    /\ exited' = exited \cup {p}
    /\ UNCHANGED <<quit, ctxDone, loop>>
    /\ UNCHANGED <<agentVars, busVars, procVars, metricVars, lockVars, apiVars, tripVars, moveVars, restVars>>

\* select: case <-ctx.Done(): return
Return(l) ==
    /\ l # "ConsumeEvents"
    /\ ProcOf(l) \notin exited
    /\ loop[l] = "select"
    /\ ctxDone
    /\ loop' = [loop EXCEPT ![l] = "returned"]
    /\ UNCHANGED <<quit, ctxDone, exited>>
    /\ UNCHANGED <<agentVars, busVars, procVars, metricVars, lockVars, apiVars, tripVars, moveVars, restVars>>

\* select: case <-ticker.C or case d := <-msgs; for d := range msgs in the
\* backend. A timer whose agent is not active continues with the next select.
Iterate(l) ==
    /\ ProcOf(l) \notin exited
    /\ loop[l] = "select"
    /\ l \in Timers => isActive
    /\ loop' = [loop EXCEPT ![l] = "running"]
    /\ UNCHANGED <<quit, ctxDone, exited>>
    /\ UNCHANGED <<agentVars, busVars, procVars, metricVars, lockVars, apiVars, tripVars, moveVars, restVars>>

\* the end of the iteration
Finish(l) ==
    /\ ProcOf(l) \notin exited
    /\ loop[l] = "running"
    /\ loop' = [loop EXCEPT ![l] = "select"]
    /\ UNCHANGED <<quit, ctxDone, exited>>
    /\ UNCHANGED <<agentVars, busVars, procVars, metricVars, lockVars, apiVars, tripVars, moveVars, restVars>>

\* POST /activate, served until the process ends
Reactivate ==
    /\ "agent" \notin exited
    /\ Activate

ShutdownNext ==
    \/ \E p \in Procs : Signal(p)
    \/ \E p \in Procs : Shutdown(p)
    \/ \E l \in Loops : Return(l)
    \/ \E l \in Loops : Iterate(l)
    \/ \E l \in Loops : Finish(l)
    \/ Reactivate
    \/ Deactivate

SpecShutdown == AgentInit /\ [][ShutdownNext]_vars

SpecShutdownFair ==
    /\ SpecShutdown
    /\ \A l \in Loops : WF_vars(Return(l)) /\ WF_vars(Finish(l))
    /\ \A p \in Procs : WF_vars(Shutdown(p))

(***************************************************************************)
(* The periodic analysis of one board: analyzeBoardHealth on the snapshot  *)
(* analyzeWorkload returned.                                               *)
(***************************************************************************)
UserNames == <<"u1", "u2", "u3", "u4", "u5">>

HealthUsers == {UserNames[i] : i \in 1..HealthTeam}

\* loads of each kind: underutilized, neither, overloaded by tasks, overloaded
\* by story points with few tasks
HealthPerf ==
    {p \in [userId : HealthUsers, completedTasks : TaskCounts, totalStoryPoints : StoryPoints] :
        p.totalStoryPoints = 21 => p.completedTasks = 1}

\* the else-if of lines 855-857; Capacity > 0.3 in tenths
Underutilized(user) ==
    /\ ~user.IsOverloaded
    /\ user.ActiveTasks < 2
    /\ user.Capacity > 3

Rebalance(from, to) ==
    PendingAction("redistribute_tasks", PriorityProactive, from.UserID, to.UserID)

\* every overloaded user is paired with the first underutilized one
RECURSIVE PairWithFirst(_, _, _)
PairWithFirst(overloadedUsers, underutilizedUsers, i) ==
    IF i > Len(overloadedUsers) THEN <<>>
    ELSE <<Rebalance(overloadedUsers[i], underutilizedUsers[1])>>
         \o PairWithFirst(overloadedUsers, underutilizedUsers, i + 1)
\* for i, overloaded := range overloadedUsers { if i < len(underutilizedUsers) {...} },
\* with i counted from 1
RECURSIVE PairLoop(_, _, _)
PairLoop(overloadedUsers, underutilizedUsers, i) ==
    IF i > Len(overloadedUsers) THEN <<>>
    ELSE (IF i <= Len(underutilizedUsers)
          THEN <<Rebalance(overloadedUsers[i], underutilizedUsers[i])>>
          ELSE <<>>)
         \o PairLoop(overloadedUsers, underutilizedUsers, i + 1)

\* the actions analyzeBoardHealth queues, in order
analyzeBoardHealth(an) ==
    LET overloadedUsers == SelectSeq(an, LAMBDA user : user.IsOverloaded)
        underutilizedUsers == SelectSeq(an, Underutilized)
    IN  IF Len(overloadedUsers) > 0 /\ Len(underutilizedUsers) > 0
        THEN PairLoop(overloadedUsers, underutilizedUsers, 1)
        ELSE <<>>

HealthInit ==
    /\ TasksInit
    /\ BusInit
    /\ DbInit
    /\ agentUp = TRUE
    /\ isActive = TRUE
    /\ pendingActions = <<>>
    /\ nextId = 0
    /\ actions = <<>>
    /\ attempted = {}
    /\ attempts = [id \in 1..MaxActions |-> <<>>]
    /\ finished = [id \in 1..MaxActions |-> NotFinished]
    /\ analysis \in Snapshots(HealthPerf, HealthTeam)
    /\ alertUser = NoUser

\* one tick of runPeriodicAnalysis for the board, with the snapshot
\* analyzeWorkload returned
BoardHealth ==
    /\ agentUp
    /\ isActive
    /\ nextId = 0
    /\ LET queued == analyzeBoardHealth(analyzeWorkload(analysis))
       IN  /\ pendingActions' = QueueAll(pendingActions, queued, nextId)
           /\ nextId' = nextId + Len(queued)
    /\ UNCHANGED <<agentUp, isActive, actions, attempted, attempts, finished, analysis,
                   alertUser>>
    /\ UNCHANGED <<busVars, procVars, metricVars, taskVars>>

HealthNext == BoardHealth

SpecHealth == HealthInit /\ [][HealthNext]_vars

(***************************************************************************)
(* The API's agent endpoints: ApproveSuggestion creates an agent action,   *)
(* ExecuteAgentAction executes one.                                        *)
(***************************************************************************)
\* the cases of the switch of ExecuteAgentAction
ExecutorTypes == {"redistribute_tasks", "adjust_wip_limits", "create_subtasks",
                  "reassign_overdue"}

\* the types a suggestion or an action of the agent may carry
ActionTypes == ExecutorTypes \cup {"enforce_wip_limits"}

\* ApproveSuggestion: db.Create(&agentAction) with the suggestion's type
ApproveSuggestion ==
    /\ Len(agentActions) < MaxAgentActions
    /\ \E type \in ActionTypes, pubOk \in BOOLEAN :
         /\ agentActions' = Append(agentActions, [Type |-> type, Status |-> "pending"])
         /\ response' = Response("ApproveSuggestion", Len(agentActions) + 1, 200, ~pubOk)
    /\ UNCHANGED <<agentVars, busVars, procVars, metricVars, lockVars, stopVars, tripVars, moveVars, restVars>>

\* the switch on action.Type: the execute function's error, or the error of
\* the default case
ExecutionError(type, execOk) == type \notin ExecutorTypes \/ ~execOk

\* the status ExecuteAgentAction gives the action
ExecutedStatus(type, execOk) ==
    IF ExecutionError(type, execOk) THEN "failed" ELSE "completed"

\* execOk: the execute function of the type returned no error; saveOk:
\* db.Save(&action) did; pubOk: PublishEvent did
ExecuteAgentAction ==
    \E id \in 1..Len(agentActions), execOk, saveOk, pubOk \in BOOLEAN :
        LET action == agentActions[id]
        IN  IF action.Status # "pending"
            THEN /\ response' = Response("ExecuteAgentAction", id, 400, FALSE)
                 /\ UNCHANGED agentActions
                 /\ UNCHANGED <<agentVars, busVars, procVars, metricVars, lockVars, stopVars, tripVars, moveVars, restVars>>
            ELSE IF ~saveOk
            THEN /\ response' = Response("ExecuteAgentAction", id, 500, FALSE)
                 /\ UNCHANGED agentActions
                 /\ UNCHANGED <<agentVars, busVars, procVars, metricVars, lockVars, stopVars, tripVars, moveVars, restVars>>
            ELSE /\ agentActions' = [agentActions EXCEPT
                                       ![id].Status = ExecutedStatus(action.Type, execOk)]
                 /\ response' = Response("ExecuteAgentAction", id,
                                         IF ExecutionError(action.Type, execOk)
                                         THEN 500 ELSE 200, ~pubOk)
                 /\ UNCHANGED <<agentVars, busVars, procVars, metricVars, lockVars, stopVars, tripVars, moveVars, restVars>>

ExecutorNext == ApproveSuggestion \/ ExecuteAgentAction

SpecExecutor == AgentInit /\ [][ExecutorNext]_vars

(***************************************************************************)
(* An event through PublishEvent and ConsumeEvents: json.Marshal of the    *)
(* Event struct, json.Unmarshal into it.  The values of Data are Go values *)
(* of the types the producers put there; a non-negative integer n is the   *)
(* pair hi, lo with n = hi * Limb + lo.                                    *)
(***************************************************************************)
Limb == 134217728

\* hi of 2^53, above which a float64 holds the even integers only
MantissaTop == 67108864

Nil == [kind |-> "nil"]
Str(s) == [kind |-> "string", s |-> s]
UUIDValue(s) == [kind |-> "uuid", s |-> s]
IntValue(hi, lo) == [kind |-> "int", hi |-> hi, lo |-> lo]
Float64(hi, lo) == [kind |-> "float64", hi |-> hi, lo |-> lo]

\* the float64 nearest to the integer hi * Limb + lo < 2^54, ties to even
ToFloat64(hi, lo) ==
    IF hi < MantissaTop \/ lo % 2 = 0 THEN Float64(hi, lo)
    ELSE IF ((lo - 1) \div 2) % 2 = 0 THEN Float64(hi, lo - 1)
    ELSE IF lo + 1 = Limb THEN Float64(hi + 1, 0)
    ELSE Float64(hi, lo + 1)

JString(s) == [t |-> "string", s |-> s]
JNumber(hi, lo) == [t |-> "number", hi |-> hi, lo |-> lo]
JNull == [t |-> "null"]

\* json.Marshal of a value of Data
MarshalValue(v) ==
    CASE v.kind = "nil" -> JNull
      [] v.kind = "string" -> JString(v.s)
      [] v.kind = "uuid" -> JString(v.s)
      [] OTHER -> JNumber(v.hi, v.lo)

\* json.Unmarshal into interface{}
UnmarshalValue(j) ==
    CASE j.t = "null" -> Nil
      [] j.t = "string" -> Str(j.s)
      [] OTHER -> ToFloat64(j.hi, j.lo)

\* map[string]interface{}: a map that is not nil
Map(m) == [nil |-> FALSE, m |-> m]

JObject(m) == [t |-> "object", m |-> m]

MarshalData(data) ==
    IF data.nil THEN JNull ELSE JObject([k \in DOMAIN data.m |-> MarshalValue(data.m[k])])

UnmarshalData(j) ==
    IF j.t = "null" THEN NilMap ELSE Map([k \in DOMAIN j.m |-> UnmarshalValue(j.m[k])])

\* json.Marshal(event), by the json tags of the struct
MarshalEvent(event) ==
    [id |-> JString(event.ID), type |-> JString(event.Type),
     boardId |-> JString(event.BoardID), userId |-> JString(event.UserID),
     data |-> MarshalData(event.Data), timestamp |-> JString(event.Timestamp.instant)]

\* json.Unmarshal(d.Body, &event)
UnmarshalEvent(j) ==
    [ID |-> j.id.s, Type |-> j.type.s, BoardID |-> j.boardId.s, UserID |-> j.userId.s,
     Data |-> UnmarshalData(j.data), Timestamp |-> Time(j.timestamp.s, FALSE)]

DataKeys == {"taskId", "newPosition"}

GoValues ==
    {Nil, Str("completed"), UUIDValue(BoardUUID), IntValue(0, 3), Float64(0, 3),
     IntValue(MantissaTop, 0), IntValue(MantissaTop, 1), IntValue(MantissaTop, 3)}

DataMaps == {NilMap} \cup {Map(m) : m \in UNION {[K -> GoValues] : K \in SUBSET DataKeys}}

SentEvents ==
    [ID : {"e1"}, Type : {"task.moved", "custom"}, BoardID : {BoardUUID},
     UserID : {UserUUID}, Data : DataMaps,
     Timestamp : {Time("t0", FALSE), Time("t1", TRUE)}]

\* a producer builds an event
NewEvent ==
    /\ sent = NoEvent \/ handed # NoEvent
    /\ sent' \in SentEvents
    /\ wire' = NoBody
    /\ handed' = NoEvent
    /\ UNCHANGED <<agentVars, busVars, procVars, metricVars, lockVars, stopVars, apiVars, moveVars, restVars>>

\* PublishEvent: body, err := json.Marshal(event), channel.Publish
PublishEvent ==
    /\ sent # NoEvent
    /\ wire = NoBody
    /\ wire' = JObject(MarshalEvent(sent))
    /\ UNCHANGED <<sent, handed>>
    /\ UNCHANGED <<agentVars, busVars, procVars, metricVars, lockVars, stopVars, apiVars, moveVars, restVars>>

\* ConsumeEvents: json.Unmarshal(d.Body, &event), handler(event)
HandEvent ==
    /\ wire # NoBody
    /\ handed = NoEvent
    /\ handed' = UnmarshalEvent(wire.m)
    /\ UNCHANGED <<sent, wire>>
    /\ UNCHANGED <<agentVars, busVars, procVars, metricVars, lockVars, stopVars, apiVars, moveVars, restVars>>

RoundTripNext == NewEvent \/ PublishEvent \/ HandEvent

SpecRoundTrip == AgentInit /\ [][RoundTripNext]_vars

(***************************************************************************)
(* Two concurrent requests on the tasks table, statement by statement.     *)
(* db.First and the MAX(position) scan run on db, outside any transaction; *)
(* the statements of MoveTask's transaction run on tx and take effect      *)
(* together when it commits, which is the most a database isolates them.   *)
(***************************************************************************)
\* COALESCE(MAX(position), -1) of a column, tasks.go:55-56
MaxPositionIn(table, column) ==
    LET ps == {table[id].position : id \in {i \in DOMAIN table : table[i].column = column}}
    IN  IF ps = {} THEN -1 ELSE CHOOSE p \in ps : \A q \in ps : q <= p

\* UPDATE position = position - 1 WHERE column_id = ? AND position > ?, tasks.go:282-284
ShiftOldColumn(table, oldColumnID, oldPosition) ==
    [id \in DOMAIN table |->
        IF table[id].column = oldColumnID /\ table[id].position > oldPosition
        THEN Row(table[id].column, table[id].position - 1) ELSE table[id]]

\* UPDATE position = position + 1 WHERE column_id = ? AND position >= ?, tasks.go:293-295
ShiftNewColumn(table, columnID, position) ==
    [id \in DOMAIN table |->
        IF table[id].column = columnID /\ table[id].position >= position
        THEN Row(table[id].column, table[id].position + 1) ELSE table[id]]

\* tx.Save(&task) with task.ColumnID and task.Position set, tasks.go:304-307
SaveTask(table, taskID, columnID, position) ==
    [table EXCEPT ![taskID] = Row(columnID, position)]

\* the statements of the transaction of request q, tasks.go:277-312
Transaction(table, q) ==
    LET old == IF q.oldColumn # q.column
               THEN ShiftOldColumn(table, q.oldColumn, q.oldPosition) ELSE table
    IN  SaveTask(ShiftNewColumn(old, q.column, q.position), q.task, q.column, q.position)

\* db.Create(&task): a new row under a fresh id, tasks.go:59
Created(table, column, position) ==
    LET taskID == CHOOSE id \in TaskIds \ DOMAIN table :
                      \A other \in TaskIds \ DOMAIN table : id <= other
    IN  [id \in DOMAIN table \cup {taskID} |->
            IF id = taskID THEN Row(column, position) ELSE table[id]]

At(r, handler, at) == requests[r].handler = handler /\ requests[r].at = at

\* the request ends with the handler's c.JSON and, after a commit, its event
Done(r, committed, code, event) ==
    requests' = [requests EXCEPT ![r] = [@ EXCEPT !.at = "done", !.committed = committed,
                                                  !.code = code, !.event = event]]

\* tx.Rollback(); c.JSON(http.StatusInternalServerError, ...); return
Rollback(r) == Done(r, FALSE, 500, "") /\ UNCHANGED taskTable

Advance(r, at) ==
    /\ requests' = [requests EXCEPT ![r].at = at]
    /\ UNCHANGED taskTable

UnchangedButMoves == UNCHANGED <<agentVars, busVars, procVars, metricVars,
                                 lockVars, stopVars, apiVars, tripVars, restVars>>

\* MoveTask, tasks.go:264-275: db.First(&task, taskID), oldColumnID, oldPosition
First(r) ==
    /\ requests[r].at = "new"
    /\ \E taskID \in DOMAIN taskTable, columnID \in ColumnIds, position \in MovePositions :
         requests' = [requests EXCEPT ![r] =
                        Request("MoveTask", "first", taskID, taskTable[taskID].column,
                                taskTable[taskID].position, columnID, position)]
    /\ UNCHANGED taskTable
    /\ UnchangedButMoves

\* MoveTask, tasks.go:277-290: tx := db.Begin() and the shift of the old column
ShiftOld(r) ==
    /\ At(r, "MoveTask", "first")
    /\ \E ok \in BOOLEAN :
         IF requests[r].oldColumn = requests[r].column \/ ok
         THEN Advance(r, "shiftedOld") ELSE Rollback(r)
    /\ UnchangedButMoves

\* MoveTask, tasks.go:292-300: the shift of the new column
ShiftNew(r) ==
    /\ At(r, "MoveTask", "shiftedOld")
    /\ \E ok \in BOOLEAN : IF ok THEN Advance(r, "shiftedNew") ELSE Rollback(r)
    /\ UnchangedButMoves

\* MoveTask, tasks.go:302-310: tx.Save(&task)
SaveMoved(r) ==
    /\ At(r, "MoveTask", "shiftedNew")
    /\ \E ok \in BOOLEAN : IF ok THEN Advance(r, "saved") ELSE Rollback(r)
    /\ UnchangedButMoves

\* MoveTask, tasks.go:312-338: tx.Commit() with its error dropped, then the
\* task.moved event and c.JSON(http.StatusOK, task)
Commit(r) ==
    /\ At(r, "MoveTask", "saved")
    /\ \E ok \in BOOLEAN :
         /\ taskTable' = IF ok THEN Transaction(taskTable, requests[r]) ELSE taskTable
         /\ Done(r, ok, 200, "task.moved")
    /\ UnchangedButMoves

\* CreateTask, tasks.go:54-57: the scan of MAX(position) and maxPosition + 1
Scan(r) ==
    /\ requests[r].at = "new"
    /\ DOMAIN taskTable # TaskIds
    /\ \E columnID \in ColumnIds :
         requests' = [requests EXCEPT ![r] =
                        Request("CreateTask", "scanned", 0, "", 0, columnID,
                                MaxPositionIn(taskTable, columnID) + 1)]
    /\ UNCHANGED taskTable
    /\ UnchangedButMoves

\* CreateTask, tasks.go:59-89: db.Create(&task), the task.created event and
\* c.JSON(http.StatusCreated, task)
Create(r) ==
    /\ At(r, "CreateTask", "scanned")
    /\ DOMAIN taskTable # TaskIds
    /\ \E ok \in BOOLEAN :
         IF ok
         THEN /\ taskTable' = Created(taskTable, requests[r].column, requests[r].position)
              /\ Done(r, TRUE, 201, "task.created")
         ELSE /\ Done(r, FALSE, 500, "")
              /\ UNCHANGED taskTable
    /\ UnchangedButMoves

\* a board of MaxTasks - 1 tasks, all in the backlog
MoveBoard == [c \in ColumnIds |-> IF c = "backlog" THEN MaxTasks - 1 ELSE 0]

MovesInit ==
    /\ TasksInit
    /\ BusInit
    /\ agentUp = TRUE
    /\ isActive = TRUE
    /\ pendingActions = <<>>
    /\ nextId = 0
    /\ actions = <<>>
    /\ attempted = {}
    /\ attempts = [id \in 1..MaxActions |-> <<>>]
    /\ finished = [id \in 1..MaxActions |-> NotFinished]
    /\ analysis = <<>>
    /\ alertUser = NoUser
    /\ taskCount = MoveBoard
    /\ positions = Dense(taskCount)
    /\ taskTable = TaskRows(taskCount)
    /\ risks = {}
    /\ MetricsInit

MovesNext ==
    \E r \in Requests :
        \/ First(r)
        \/ ShiftOld(r)
        \/ ShiftNew(r)
        \/ SaveMoved(r)
        \/ Commit(r)
        \/ Scan(r)
        \/ Create(r)

SpecMoves == MovesInit /\ [][MovesNext]_vars

(***************************************************************************)
(* The agent's executor against the backend's own router.                  *)
(***************************************************************************)
Route(method, path, handler) == [method |-> method, path |-> path, handler |-> handler]

\* main, part_012:192-249: the routes registered on the gin router
RouteTable ==
    {Route("GET", <<"health">>, "health"),
     Route("GET", <<"api", "boards">>, "GetBoards"),
     Route("POST", <<"api", "boards">>, "CreateBoard"),
     Route("GET", <<"api", "boards", ":id">>, "GetBoard"),
     Route("PUT", <<"api", "boards", ":id">>, "UpdateBoard"),
     Route("DELETE", <<"api", "boards", ":id">>, "DeleteBoard"),
     Route("GET", <<"api", "tasks">>, "GetTasks"),
     Route("POST", <<"api", "tasks">>, "CreateTask"),
     Route("GET", <<"api", "tasks", ":id">>, "GetTask"),
     Route("PUT", <<"api", "tasks", ":id">>, "UpdateTask"),
     Route("DELETE", <<"api", "tasks", ":id">>, "DeleteTask"),
     Route("POST", <<"api", "tasks", ":id", "move">>, "MoveTask"),
     Route("GET", <<"api", "analytics", "board", ":id", "velocity">>, "GetVelocityMetrics"),
     Route("GET", <<"api", "analytics", "board", ":id", "burndown">>, "GetBurndownData"),
     Route("GET", <<"api", "analytics", "board", ":id", "risk-trends">>, "GetRiskTrends"),
     Route("GET", <<"api", "analytics", "board", ":id", "team-performance">>, "GetTeamPerformance"),
     Route("GET", <<"api", "ai", "board", ":id", "predictions">>, "GetPredictions"),
     Route("POST", <<"api", "ai", "board", ":id", "risk-analysis">>, "AnalyzeRisk"),
     Route("GET", <<"api", "agent", "suggestions">>, "GetSuggestions"),
     Route("POST", <<"api", "agent", "suggestions", ":id", "approve">>, "ApproveSuggestion"),
     Route("POST", <<"api", "agent", "suggestions", ":id", "reject">>, "RejectSuggestion"),
     Route("GET", <<"api", "agent", "actions">>, "GetAgentActions"),
     Route("POST", <<"api", "agent", "actions", ":id", "execute">>, "ExecuteAgentAction"),
     Route("GET", <<"api", "events", "board", ":id">>, "GetBoardEvents"),
     Route("POST", <<"api", "events">>, "CreateEvent"),
     Route("GET", <<"ws">>, "HandleWebSocket")}

\* gin's route tree: a segment ":id" takes any segment, any other only itself
Matches(pattern, path) ==
    /\ Len(pattern) = Len(path)
    /\ \A i \in 1..Len(pattern) : pattern[i] = ":id" \/ pattern[i] = path[i]

Handlers(table, method, path) ==
    {route.handler : route \in {x \in table : x.method = method /\ Matches(x.path, path)}}

\* the status codes a request can be answered with: 404 from the router when
\* no route of its method matches, else whatever its handler answers
StatusCodes(table, method, path) ==
    IF Handlers(table, method, path) = {} THEN {404} ELSE {200, 201, 400, 404, 500}

\* executeAction, agent.go:986-1013: POST {APIBaseURL}/api/agent/actions,
\* nil only for http.StatusCreated
executeAction(table) ==
    {code = 201 : code \in StatusCodes(table, "POST", <<"api", "agent", "actions">>)}

\* executePendingActions against the backend of this repository
ExecuteAgainstBackend == \E ok \in executeAction(RouteTable) : Attempt(ok)

RoutedNext ==
    \/ ConsumeAlert
    \/ ExecuteStart
    \/ ExecuteAgainstBackend
    \/ Activate
    \/ Deactivate

SpecRouted == AgentInit /\ [][RoutedNext]_vars

(***************************************************************************)
(* GET /api/analytics/board/:id/burndown.  Time is counted in days before  *)
(* time.Now(), which is day 0; a task that is not completed has a NULL     *)
(* completed_at.                                                           *)
(***************************************************************************)
SprintDays == 14

\* a / b of Go: the quotient truncated toward zero
Quo(a, b) == IF a >= 0 THEN a \div b ELSE -((-a) \div b)

\* story_points is a Go int: nothing in the handlers bounds it
TaskStoryPoints == {-1, 3, 10}

SprintTasks ==
    [createdAt : {-20, -10}, completed : BOOLEAN, completedAt : {-20, -9, -2},
     storyPoints : TaskStoryPoints]

RECURSIVE SumStoryPoints(_)
SumStoryPoints(tasks) ==
    IF tasks = {} THEN 0
    ELSE LET t == CHOOSE x \in tasks : TRUE
         IN  t.storyPoints + SumStoryPoints(tasks \ {t})

\* COALESCE(SUM(story_points), 0) WHERE created_at <= sprintStart, part_009:122-126
TotalStoryPoints(tasks, sprintStart) ==
    SumStoryPoints({t \in tasks : t.createdAt <= sprintStart})

\* COALESCE(SUM(story_points), 0) WHERE completed_at <= currentDate, part_009:135-139
CompletedPoints(tasks, currentDate) ==
    SumStoryPoints({t \in tasks : t.completed /\ t.completedAt <= currentDate})

\* the loop body for day index i, part_009:132-151
BurndownPoint(tasks, sprintStart, i) ==
    LET totalStoryPoints == TotalStoryPoints(tasks, sprintStart)
        currentDate == sprintStart + i
        remaining == totalStoryPoints - CompletedPoints(tasks, currentDate)
    IN  [Date |-> currentDate,
         Remaining |-> remaining,
         Ideal |-> totalStoryPoints - Quo(totalStoryPoints * i, SprintDays),
         Actual |-> remaining,
         TotalStoryPoints |-> totalStoryPoints]

\* for i := 0; i <= sprintDays; i++, part_009:131
Burndown(tasks, now) ==
    [k \in 1..(SprintDays + 1) |-> BurndownPoint(tasks, now - SprintDays, k - 1)]

UnchangedButBurndown ==
    UNCHANGED <<agentVars, busVars, procVars, metricVars, lockVars, stopVars, apiVars,
                tripVars, moveVars, suggVars, hubVars, colVars>>

\* a task of the board, created and perhaps completed some days ago
StoreTask ==
    /\ Cardinality(boardTasks) < MaxSprintTasks
    /\ \E t \in SprintTasks :
         /\ t.completed => t.createdAt <= t.completedAt
         /\ ~t.completed => t.completedAt = -2
         /\ boardTasks' = boardTasks \cup {t}
    /\ UNCHANGED burndownData
    /\ UnchangedButBurndown

GetBurndownData ==
    /\ burndownData' = Burndown(boardTasks, 0)
    /\ UNCHANGED boardTasks
    /\ UnchangedButBurndown

BurndownNext == StoreTask \/ GetBurndownData

SpecBurndown == AgentInit /\ [][BurndownNext]_vars

(***************************************************************************)
(* The agent with both producers of actions: alert intake and the periodic *)
(* analysis queue while the executor works through a batch.                *)
(***************************************************************************)
\* the team-performance rows of the periodic analysis: two users, each
\* overloaded or underutilized
PeriodicPerf == {p \in AgentPerf : p.userId \in {"u1", "u2"}}

\* one tick of runPeriodicAnalysis while active, agent.go:810-820, for a board
\* with any team-performance snapshot of the two users
PeriodicAnalysis ==
    /\ agentUp
    /\ isActive
    /\ \E an \in Snapshots(PeriodicPerf, Cardinality({"u1", "u2"})) :
         LET queued == analyzeBoardHealth(analyzeWorkload(an))
         IN  /\ nextId + Len(queued) <= MaxActions
             /\ pendingActions' = QueueAll(pendingActions, queued, nextId)
             /\ nextId' = nextId + Len(queued)
    /\ UNCHANGED <<agentUp, isActive, actions, attempted, attempts, finished, analysis,
                   alertUser>>
    /\ UNCHANGED <<busVars, procVars, metricVars, taskVars>>

\* consumeEvents on an alert about the same two users
BatchAlert ==
    \E alert \in Alerts :
        \E workload \in WorkloadsFor(alert, PeriodicPerf, Cardinality({"u1", "u2"})) :
            AlertIntake(alert, workload)

BatchNext ==
    \/ BatchAlert
    \/ PeriodicAnalysis
    \/ ExecuteStart
    \/ ExecuteStep

SpecBatch == AgentInit /\ [][BatchNext]_vars

(***************************************************************************)
(* Concurrent ApproveSuggestion and RejectSuggestion requests, statement   *)
(* by statement.  No handler opens a transaction; suggestions are inserted *)
(* by another service, pending.                                            *)
(***************************************************************************)
Suggestion(status, created) == [status |-> status, actions |-> created]

\* a row of the suggestions table appears, with status pending
StoreSuggestion ==
    /\ Len(suggestions) < MaxSuggestions
    /\ suggestions' = Append(suggestions, Suggestion("pending", 0))
    /\ UNCHANGED <<agentVars, busVars, procVars, metricVars, lockVars, stopVars, apiVars,
                   tripVars, moveVars, burnVars, hubVars, colVars>>

UnchangedButSuggestions ==
    UNCHANGED <<agentVars, busVars, procVars, metricVars, lockVars, stopVars, response,
                tripVars, taskTable, burnVars, hubVars, colVars>>

DecidedStatus == [ApproveSuggestion |-> "approved", RejectSuggestion |-> "rejected"]

\* db.First(&suggestion, suggestionID) and the test of suggestion.Status,
\* agent.go:54-67 and 125-138
SuggestionFirst(r) ==
    /\ requests[r].at = "new"
    /\ \E handler \in DOMAIN DecidedStatus, id \in DOMAIN suggestions :
         requests' = [requests EXCEPT ![r] =
            IF suggestions[id].status # "pending"
            THEN [Request(handler, "done", id, "", 0, "", 0) EXCEPT !.code = 400]
            ELSE Request(handler, "first", id, "", 0, "", 0)]
    /\ UNCHANGED <<suggestions, agentActions>>
    /\ UnchangedButSuggestions

\* suggestion.Status = "approved" / "rejected"; db.Save(&suggestion),
\* agent.go:70-74 and 141-145; RejectSuggestion then publishes and answers 200
SuggestionSave(r) ==
    /\ requests[r].handler \in DOMAIN DecidedStatus
    /\ requests[r].at = "first"
    /\ \E ok \in BOOLEAN :
         IF ~ok
         THEN Done(r, FALSE, 500, "") /\ UNCHANGED suggestions
         ELSE /\ suggestions' = [suggestions EXCEPT ![requests[r].task].status =
                                    DecidedStatus[requests[r].handler]]
              /\ IF requests[r].handler = "RejectSuggestion"
                 THEN Done(r, TRUE, 200, "suggestion.rejected")
                 ELSE requests' = [requests EXCEPT ![r].at = "saved"]
    /\ UNCHANGED agentActions
    /\ UnchangedButSuggestions

\* ApproveSuggestion, agent.go:76-112: db.Create(&agentAction), the event and
\* the answer
SuggestionCreate(r) ==
    /\ At(r, "ApproveSuggestion", "saved")
    /\ \E ok \in BOOLEAN, type \in ActionTypes :
         IF ~ok
         THEN Done(r, FALSE, 500, "") /\ UNCHANGED <<suggestions, agentActions>>
         ELSE /\ agentActions' = Append(agentActions, [Type |-> type, Status |-> "pending"])
              /\ suggestions' = [suggestions EXCEPT ![requests[r].task].actions = @ + 1]
              /\ Done(r, TRUE, 200, "suggestion.approved")
    /\ UnchangedButSuggestions

SuggestionsNext ==
    \/ StoreSuggestion
    \/ \E r \in Requests :
          \/ SuggestionFirst(r)
          \/ SuggestionSave(r)
          \/ SuggestionCreate(r)

SpecSuggestions == AgentInit /\ [][SuggestionsNext]_vars

(***************************************************************************)
(* Concurrent ExecuteAgentAction requests, statement by statement.  A      *)
(* request's committed field says that its execute function has applied    *)
(* the action's effect; its column field holds the status it will save.    *)
(***************************************************************************)
UnchangedButExecutions ==
    UNCHANGED <<agentVars, busVars, procVars, metricVars, lockVars, stopVars, response,
                tripVars, taskTable, restVars>>

\* db.First(&action, actionID) and the test of action.Status, agent.go:208-221
ExecuteFirst(r) ==
    /\ requests[r].at = "new"
    /\ \E id \in 1..Len(agentActions) :
         requests' = [requests EXCEPT ![r] =
            IF agentActions[id].Status # "pending"
            THEN [Request("ExecuteAgentAction", "done", id, "", 0, "", 0) EXCEPT !.code = 400]
            ELSE Request("ExecuteAgentAction", "first", id, "", 0, "", 0)]
    /\ UNCHANGED agentActions
    /\ UnchangedButExecutions

\* the switch on action.Type and the status chosen, agent.go:223-249
ExecuteSwitch(r) ==
    /\ At(r, "ExecuteAgentAction", "first")
    /\ \E execOk \in BOOLEAN :
         LET type == agentActions[requests[r].task].Type
         IN  requests' = [requests EXCEPT ![r] =
                [@ EXCEPT !.at = "executed",
                          !.committed = ~ExecutionError(type, execOk),
                          !.column = ExecutedStatus(type, execOk)]]
    /\ UNCHANGED agentActions
    /\ UnchangedButExecutions

\* db.Save(&action), the event and the answer, agent.go:251-285
ExecuteSave(r) ==
    /\ At(r, "ExecuteAgentAction", "executed")
    /\ \E saveOk \in BOOLEAN :
         IF ~saveOk
         THEN /\ Done(r, requests[r].committed, 500, "")
              /\ UNCHANGED agentActions
         ELSE /\ agentActions' = [agentActions EXCEPT
                                    ![requests[r].task].Status = requests[r].column]
              /\ Done(r, requests[r].committed,
                      IF requests[r].column = "failed" THEN 500 ELSE 200,
                      "agent.action.executed")
    /\ UnchangedButExecutions

ExecutionsNext ==
    \/ ApproveSuggestion
    \/ \E r \in Requests :
          \/ ExecuteFirst(r)
          \/ ExecuteSwitch(r)
          \/ ExecuteSave(r)

SpecExecutions == AgentInit /\ [][ExecutionsNext]_vars

(***************************************************************************)
(* The WebSocket hub.  A send on a closed channel and a second close panic *)
(* in a goroutine nothing recovers, which ends the process.                *)
(***************************************************************************)
\* select { case client.send <- message: default: close(client.send); ... } for
\* one client; room is the room whose map the default case deletes from
Deliver(h, c, room) ==
    IF h.closes[c] > 0
    THEN [h EXCEPT !.sentOnClosed = TRUE, !.up = FALSE]
    ELSE IF h.buffered[c] < SendBuffer
    THEN [h EXCEPT !.buffered[c] = @ + 1]
    ELSE [h EXCEPT !.closes[c] = @ + 1,
                   !.clients = @ \ {c},
                   !.rooms = [r \in BoardRooms |-> IF r = room THEN @[r] \ {c} ELSE @[r]]]

\* for client := range ...: the loop stops where the process panics
RECURSIVE DeliverAll(_, _, _)
DeliverAll(h, cs, room) ==
    IF cs = {} \/ ~h.up THEN h
    ELSE LET c == CHOOSE x \in cs : TRUE
         IN  DeliverAll(Deliver(h, c, room), cs \ {c}, room)

\* Hub.Run, case client := <-h.register, part_001:61-79
Registered(h, c) ==
    [h EXCEPT !.clients = @ \cup {c},
              !.rooms = [r \in BoardRooms |-> IF r = h.roomID[c] THEN @[r] \cup {c} ELSE @[r]]]

\* Hub.Run, case client := <-h.unregister, part_001:80-100; a close of a closed
\* channel panics
Unregistered(h, c) ==
    IF c \notin h.clients THEN h
    ELSE IF h.closes[c] > 0
    THEN [h EXCEPT !.clients = @ \ {c}, !.closes[c] = @ + 1, !.up = FALSE]
    ELSE [h EXCEPT !.clients = @ \ {c}, !.closes[c] = @ + 1,
                   !.rooms = [r \in BoardRooms |->
                                IF r = h.roomID[c] THEN @[r] \ {c} ELSE @[r]]]

UnchangedButHub ==
    UNCHANGED <<agentVars, busVars, procVars, metricVars, lockVars, stopVars, apiVars,
                tripVars, moveVars, burnVars, suggVars, colVars>>

\* HandleWebSocket, part_001:140-164: the client with its boardId, registered
HandleWebSocket(c) ==
    /\ hub.up
    /\ hub.readPump[c] = "none"
    /\ \E roomID \in BoardRooms \cup {""} :
         hub' = Registered([hub EXCEPT !.roomID[c] = roomID, !.readPump[c] = "reading"], c)
    /\ UnchangedButHub

\* readPump on a ping, part_001:198-211: the pong, or close(c.send) and return
Ping(c) ==
    /\ hub.up
    /\ hub.readPump[c] = "reading"
    /\ hub' = IF hub.closes[c] > 0
              THEN [hub EXCEPT !.sentOnClosed = TRUE, !.up = FALSE]
              ELSE IF hub.buffered[c] < SendBuffer
              THEN [hub EXCEPT !.buffered[c] = @ + 1]
              ELSE [hub EXCEPT !.closes[c] = @ + 1, !.readPump[c] = "returned"]
    /\ UnchangedButHub

\* readPump on join_board, part_001:212-217
JoinBoard(c) ==
    /\ hub.up
    /\ hub.readPump[c] = "reading"
    /\ \E boardID \in BoardRooms :
         hub' = Registered([hub EXCEPT !.roomID[c] = boardID], c)
    /\ UnchangedButHub

\* readPump on cursor_move or task_drag, part_001:218-231
RoomMessage(c) ==
    /\ hub.up
    /\ hub.readPump[c] = "reading"
    /\ hub.roomID[c] # ""
    /\ hub' = DeliverAll(hub, hub.rooms[hub.roomID[c]], hub.roomID[c])
    /\ UnchangedButHub

\* readPump: ReadMessage fails and the loop breaks, part_001:178-185
ReadError(c) ==
    /\ hub.up
    /\ hub.readPump[c] = "reading"
    /\ hub' = [hub EXCEPT !.readPump[c] = "returned"]
    /\ UnchangedButHub

\* readPump's deferred c.hub.unregister <- c, taken by Hub.Run
Unregister(c) ==
    /\ hub.up
    /\ hub.readPump[c] = "returned"
    /\ hub' = [Unregistered(hub, c) EXCEPT !.readPump[c] = "unregistered"]
    /\ UnchangedButHub

\* Hub.Run, case message := <-h.broadcast, part_001:102-113
Broadcast ==
    /\ hub.up
    /\ hub.clients # {}
    /\ hub' = DeliverAll(hub, hub.clients, "")
    /\ UnchangedButHub

\* writePump takes what the send channel holds, part_001:247-270
WritePump(c) ==
    /\ hub.up
    /\ hub.buffered[c] > 0
    /\ hub' = [hub EXCEPT !.buffered[c] = 0]
    /\ UnchangedButHub

HubNext ==
    \/ Broadcast
    \/ \E c \in WsClients :
          \/ HandleWebSocket(c)
          \/ Ping(c)
          \/ JoinBoard(c)
          \/ RoomMessage(c)
          \/ ReadError(c)
          \/ Unregister(c)
          \/ WritePump(c)

SpecHub == AgentInit /\ [][HubNext]_vars

(***************************************************************************)
(* The default columns of a board (processor.go).                          *)
(***************************************************************************)
Column(name, position, wipLimit) ==
    [name |-> name, position |-> position, wipLimit |-> wipLimit]

\* defaultColumns, processor.go:289-295
DefaultColumns ==
    <<Column("Backlog", 0, 0), Column("To Do", 1, 5), Column("In Progress", 2, 3),
      Column("Review", 3, 2), Column("Done", 4, 0)>>

\* columns that are not the default ones
UserColumns == {Column(name, position, 0) : name \in {"Ideas", "Blocked"}, position \in {0, 5}}

\* ep.db.Model(&models.Column{}).Where("board_id = ?", boardID).Count(&count),
\* line 283: the error is not read, and count keeps its zero value on one
Count(table, ok) == IF ok THEN Len(table) ELSE 0

\* initializeDefaultColumns, processor.go:275-298, for the id of a board
initializeDefaultColumns(table, countOk, createOk) ==
    IF Count(table, countOk) > 0 THEN [err |-> FALSE, columns |-> table]
    ELSE IF createOk THEN [err |-> FALSE, columns |-> table \o DefaultColumns]
    ELSE [err |-> TRUE, columns |-> table]

UnchangedButColumns ==
    UNCHANGED <<agentVars, busVars, procVars, metricVars, lockVars, stopVars, apiVars,
                tripVars, moveVars, burnVars, suggVars, hubVars>>

\* a column of the board created elsewhere (the rows column.created tells of)
StoreColumn ==
    /\ Len(columns) < MaxColumnRows
    /\ Len(SelectSeq(columns, LAMBDA row : row \in UserColumns)) < MaxUserColumns
    /\ \E row \in UserColumns : columns' = Append(columns, row)
    /\ UnchangedButColumns

\* handleBoardCreated, processor.go:119-122, on a delivery of the board's
\* board.created event
handleBoardCreated ==
    /\ Len(columns) + Len(DefaultColumns) <= MaxColumnRows
    /\ \E countOk, createOk \in BOOLEAN :
         columns' = initializeDefaultColumns(columns, countOk, createOk).columns
    /\ UnchangedButColumns

ColumnsNext == StoreColumn \/ handleBoardCreated

SpecColumns == AgentInit /\ [][ColumnsNext]_vars

(***************************************************************************)
(* Claims on the pending-action queue and its executor.                    *)
(***************************************************************************)
Failures(id) == Cardinality({i \in 1..Len(attempts[id]) : ~attempts[id][i]})

AllFailed(id) == \A i \in 1..Len(attempts[id]) : ~attempts[id][i]

InBatch(id) == \E i \in 1..Len(actions) : actions[i].ID = id

\* C1: every action in the pending-action queue has retryCount at most 3, and
\* that count is the number of its failed execution attempts.
C1_RetryCountBounded ==
    \A id \in DOMAIN pendingActions :
        /\ pendingActions[id].RetryCount <= MaxRetries
        /\ pendingActions[id].RetryCount = Failures(id)

C1_Witness ==
    \E id \in DOMAIN pendingActions :
        pendingActions[id].RetryCount = MaxRetries - 1 /\ Len(attempts[id]) = MaxRetries - 1

\* C2: an action whose every attempt fails is attempted at most once per batch
\* and at most 3 times; it stays queued until its 3rd failure, which removes
\* it, and it is in no later batch.
C2_ThreeFailuresThenDropped ==
    \A id \in 1..MaxActions :
        AllFailed(id) =>
            /\ Len(attempts[id]) <= MaxRetries
            /\ (id \in attempted => ~InBatch(id))
            /\ (id <= nextId /\ Len(attempts[id]) < MaxRetries =>
                    id \in DOMAIN pendingActions /\ finished[id].outcome = "none")
            /\ (Len(attempts[id]) = MaxRetries =>
                    /\ id \notin DOMAIN pendingActions
                    /\ ~InBatch(id)
                    /\ finished[id] = [outcome |-> "dropped", RetryCount |-> MaxRetries])

C2_Witness ==
    \E id \in 1..MaxActions :
        /\ attempts[id] = <<FALSE, FALSE, FALSE>>
        /\ finished[id].outcome = "dropped"
        /\ actions = <<>>

\* C3: an attempt that succeeds is the action's last: the action leaves the
\* queue in that batch, the removed copy's retryCount counts only the earlier
\* failures, and no later batch holds it.
C3_SuccessRemoves ==
    \A id \in 1..MaxActions :
        \A i \in 1..Len(attempts[id]) :
            attempts[id][i] =>
                /\ i = Len(attempts[id])
                /\ id \notin DOMAIN pendingActions
                /\ ~InBatch(id)
                /\ finished[id] = [outcome |-> "completed", RetryCount |-> i - 1]

C3_Witness ==
    \E id \in 1..MaxActions :
        /\ attempts[id] = <<TRUE>>
        /\ finished[id] = [outcome |-> "completed", RetryCount |-> 0]
        /\ \E other \in DOMAIN pendingActions : other # id

\* C4: within a batch an action is attempted only when no action still to be
\* attempted in that batch has a higher priority (1 the highest, 3 the lowest).
C4_HighestPriorityFirst ==
    [][ExecuteStep =>
          \A k \in 1..Len(actions) : Head(actions).Priority <= actions[k].Priority]_vars

\* C10: the toUserId of a queued redistribute_tasks action is a user of the
\* snapshot other than the alert's user, not overloaded, with the least
\* active-task count among those, the first in snapshot order on ties.
C10_LeastLoadedEligibleTarget ==
    \A id \in DOMAIN pendingActions :
        pendingActions[id].Type = "redistribute_tasks" =>
            LET an == analyzeWorkload(analysis)
                eligible == {i \in 1..Len(an) :
                                an[i].UserID # alertUser /\ ~an[i].IsOverloaded}
            IN  \E i \in eligible :
                    /\ an[i].UserID = pendingActions[id].ToUserId
                    /\ \A j \in eligible :
                          /\ an[i].ActiveTasks <= an[j].ActiveTasks
                          /\ (an[j].ActiveTasks = an[i].ActiveTasks => i <= j)

(***************************************************************************)
(* The message bus.                                                        *)
(***************************************************************************)
InEventQueue(id) == \E k \in 1..Len(eventQueue) : eventQueue[k] = id

AckDiscipline(d) ==
    d.id # 0 =>
        /\ Len(d.acks) = 1
        /\ (d.acks = <<"nack_discard">>) <=> ~d.unmarshalOk
        /\ (d.acks = <<"nack_requeue">>) <=> (d.handler = "err")
        /\ (d.acks = <<"ack">>) <=> (d.handler = "ok")

\* C5: every message delivered to the event consumer or to the agent's alert
\* consumer gets exactly one acknowledgment: a negative one without requeue if
\* and only if the body does not deserialize, a negative one with requeue if
\* and only if the handler returns an error, a positive one if and only if the
\* handler returns no error.
C5_ExactlyOneAcknowledgment ==
    /\ AckDiscipline(lastDelivery.events)
    /\ AckDiscipline(lastDelivery.risk)

\* C6: at-least-once delivery.  An event whose handler has only failed so far
\* is still in the queue for another delivery, neither acknowledged nor
\* discarded, however often it has failed; an event whose handler has
\* succeeded is acknowledged and out of the queue; only an event whose handler
\* succeeded is acknowledged, and only one that does not deserialize is
\* discarded.
C6_AtLeastOnce ==
    \A id \in DOMAIN msgs :
        msgs[id].queue = "events" =>
            /\ (msgs[id].errs > 0 /\ ~msgs[id].ok) =>
                    (msgs[id].status = "queued" /\ InEventQueue(id))
            /\ msgs[id].ok => (msgs[id].status = "acked" /\ ~InEventQueue(id))
            /\ msgs[id].status = "acked" => msgs[id].ok
            /\ msgs[id].status = "discarded" =>
                    (msgs[id].errs = 0 /\ ~Unmarshal(msgs[id].body).ok)

\* an event that failed MaxSeen times, was delivered again and acknowledged
C6_Witness ==
    \E id \in DOMAIN msgs :
        /\ msgs[id].queue = "events"
        /\ msgs[id].errs = MaxSeen
        /\ msgs[id].ok
        /\ msgs[id].status = "acked"
        /\ lastDelivery.events.id = id

UnknownTypeDelivered(d) == d.id # 0 /\ d.unmarshalOk /\ d.Type \notin DispatchTypes

\* C7 as stated: for every consumed event whose type is not in the dispatch
\* table, handling returns no error and the message is acknowledged, never
\* requeued.
C7_UnknownTypeAlwaysAcked ==
    LET d == lastDelivery.events
    IN  UnknownTypeDelivered(d) =>
            (d.handler = "ok" /\ d.acks = <<"ack">> /\ msgs[d.id].errs = 0)

\* C7, amended: for every consumed event whose type is not in the dispatch
\* table, handling returns no error if and only if the event was stored in the
\* events table; a stored one is acknowledged, one whose store failed is
\* negatively acknowledged with requeue.
C7_UnknownTypeAckedIffStored ==
    LET d == lastDelivery.events
    IN  UnknownTypeDelivered(d) =>
            /\ (d.handler = "ok") <=> d.stored
            /\ d.stored => d.acks = <<"ack">>
            /\ ~d.stored => d.acks = <<"nack_requeue">>

\* a board.deleted event whose store failed before, now stored and acknowledged
C7_Witness ==
    LET d == lastDelivery.events
    IN  /\ UnknownTypeDelivered(d)
        /\ d.Type = "board.deleted"
        /\ msgs[d.id].errs > 0
        /\ d.stored
        /\ d.acks = <<"ack">>


(***************************************************************************)
(* The event log and the bottleneck analysis.                              *)
(***************************************************************************)
\* C8: for every event a mutation handler emits, a record of it is in the
\* events table when publish is attempted, so an event whose publish failed
\* still has its record.
C8_RecordedBeforePublish ==
    \A id \in DOMAIN msgs :
        msgs[id].origin # "external" =>
            /\ eventLog[id].api > 0
            /\ msgs[id].status = "lost" => eventLog[id].api + eventLog[id].processor > 0

\* C9: when the processor has handled a task.moved event, every column with a
\* limit above 0 and more tasks than its limit has a bottleneck risk
\* prediction with level high, score 0.8 and overflowBy = tasks - limit, and
\* the handling adds no bottleneck prediction for any other column.
C9_BottleneckRecorded ==
    [][(/\ ConsumeEvents
        /\ lastDelivery'.events.Type = "task.moved"
        /\ lastDelivery'.events.handler = "ok")
       => \A c \in ColumnIds :
            IF WIPLimit[c] > 0 /\ taskCount'[c] > WIPLimit[c]
            THEN \E r \in risks' :
                    /\ r.Type = "bottleneck"
                    /\ r.columnId = c
                    /\ r.Level = "high"
                    /\ r.Score = BottleneckScore
                    /\ r.overflowBy = taskCount'[c] - WIPLimit[c]
            ELSE \A r \in risks' \ risks : r.columnId # c]_vars


(***************************************************************************)
(* Alert intake.                                                           *)
(***************************************************************************)
NoEligibleTarget ==
    \A i \in 1..Len(analysis) :
        analysis[i].userId = alertUser \/ IsOverloaded(analysis[i])

\* C11: when an overload alert for user U is handled against a workload
\* snapshot in which every user other than U is overloaded (or there is no
\* other user), no action enters the pending queue and the alert is
\* acknowledged and leaves the agent's queue.
C11_NoTargetNoAction ==
    NoEligibleTarget =>
        /\ pendingActions = <<>>
        /\ nextId = 0
        /\ lastDelivery.risk.handler = "ok" =>
              /\ lastDelivery.risk.acks = <<"ack">>
              /\ msgs[1].status = "acked"
              /\ riskQueue = <<>>

\* the only other users of the snapshot are overloaded; the alert was handled
C11_Witness ==
    /\ NoEligibleTarget
    /\ \E i \in 1..Len(analysis) : analysis[i].userId # alertUser
    /\ lastDelivery.risk.handler = "ok"
    /\ lastDelivery.risk.acks = <<"ack">>
    /\ pendingActions = <<>>


StructuralAlerts == {"bottleneck", "deadline_risk", "wip_violation"}

AckedAlerts == {id \in DOMAIN msgs : msgs[id].queue = "risk" /\ msgs[id].status = "acked"}

\* C12: a risk-alert delivery that ends acknowledged adds exactly one pending
\* action for a bottleneck, deadline_risk or wip_violation alert, at most one
\* for an overload alert and none for any other type; a delivery that ends
\* requeued or discarded (or without acknowledgment) adds none; so there are
\* never more actions than acknowledged alerts.
C12_OneActionPerAcknowledgedAlert ==
    [][AgentConsumeEvents =>
        LET d == lastDelivery'.risk
            added == DOMAIN pendingActions' \ DOMAIN pendingActions
            n == Cardinality(added)
        IN  /\ DOMAIN pendingActions \subseteq DOMAIN pendingActions'
            /\ n = nextId' - nextId
            /\ IF d.acks = <<"ack">>
               THEN CASE d.Type \in StructuralAlerts -> n = 1
                      [] d.Type = "overload" -> n <= 1
                      [] OTHER -> n = 0
               ELSE n = 0
            /\ Cardinality(DOMAIN pendingActions') <= Cardinality(AckedAlerts')]_vars

\* an overload alert requeued at least once, then acknowledged with its one action
C12_Witness ==
    /\ Len(msgs) = 1
    /\ msgs[1].queue = "risk"
    /\ msgs[1].errs > 0
    /\ msgs[1].status = "acked"
    /\ lastDelivery.risk.Type = "overload"
    /\ Cardinality(DOMAIN pendingActions) = 1


(***************************************************************************)
(* The tasks table.                                                        *)
(***************************************************************************)
\* C13: after any successful CreateTask, MoveTask and DeleteTask requests the
\* positions of the tasks of every column are exactly 0..n-1: non-negative,
\* contiguous, without gaps and without duplicates.
C13_PositionsDense ==
    \A c \in ColumnIds :
        /\ Len(positions[c]) = taskCount[c]
        /\ \A i \in 1..Len(positions[c]) : positions[c][i] = i - 1


(***************************************************************************)
(* The velocity projection.                                                *)
(***************************************************************************)
RowOf(rows, week) == rows[CHOOSE i \in RowsOf(rows, week) : TRUE]

SameFraction(a, b) == a.num * b.den = b.num * a.den

\* a successful handling of an event that ends in updateVelocityMetrics
Recomputation == \E event \in VelocityEvents : Recompute(event, TRUE)

C15_RecomputationIdempotent ==
    [][(Recomputation /\ basis[ISOWeek(clock)] = Cardinality(doneTasks))
       => LET old == RowOf(velocityRows, ISOWeek(clock))
              new == RowOf(velocityRows', ISOWeek(clock))
          IN  /\ SameFraction(new.Velocity, old.Velocity)
              /\ new.Completed = old.Completed
              /\ new.TotalPoints = old.TotalPoints]_vars

\* C16: the velocity a recomputation stores is the sum of the story points of
\* the tasks it counts as completed this week over their number plus one; the
\* denominator is never 0, and with no such task the velocity is 0.
C16_VelocityFormula ==
    [][Recomputation
       => LET row == RowOf(velocityRows', ISOWeek(clock))
              counted == CompletedTasks(doneTasks, clock)
          IN  /\ row.Velocity.den > 0
              /\ SameFraction(row.Velocity,
                              [num |-> SumPoints(counted), den |-> Cardinality(counted) + 1])
              /\ row.Completed = Cardinality(counted)
              /\ row.TotalPoints = SumPoints(counted)
              /\ counted = {} => row.Velocity.num = 0]_vars

\* one week's velocity was recomputed with no task counted, the other's with
\* one or more
C16_Witness ==
    /\ doneTasks # {}
    /\ \E i, j \in 1..Len(velocityRows) :
          /\ basis[velocityRows[i].SprintWeek] >= 0
          /\ basis[velocityRows[j].SprintWeek] >= 0
          /\ velocityRows[i].Completed = 0
          /\ velocityRows[i].Velocity = [num |-> 0, den |-> 1]
          /\ velocityRows[j].Completed > 0
          /\ velocityRows[j].Velocity.den = velocityRows[j].Completed + 1

(***************************************************************************)
(* From detection to the agent.                                            *)
(***************************************************************************)
\* C17: whenever the processor has recorded a column over its WIP limit, a
\* risk alert is eventually published on the agent's queue and a corrective
\* action appears in the agent's pending queue.
C17_DetectionReachesAgent ==
    (risks # {}) ~> (/\ \E id \in DOMAIN msgs : msgs[id].queue = "risk"
                     /\ pendingActions # <<>>)


\* C18: the events table holds at most one record per published event, and
\* no step removes or rewrites a record it holds.
C18_OneRecordPerEvent ==
    [][/\ \A id \in DOMAIN eventLog :
            /\ eventLog'[id].api >= eventLog[id].api
            /\ eventLog'[id].processor >= eventLog[id].processor
       /\ \A id \in DOMAIN eventLog' :
            eventLog'[id].api + eventLog'[id].processor <= 1]_vars


(***************************************************************************)
(* Claims on the agent's lock and on shutdown.                             *)
(***************************************************************************)
\* C19: every read and every write of the pending-action map and of the
\* last-analysis timestamp, by any goroutine, is made while that goroutine
\* holds the agent's read/write lock.
C19_AccessUnderLock ==
    access.task # "none" => access.held

StartsIteration(l) == loop[l] # "running" /\ loop'[l] = "running"

\* C20: once the termination signal has reached a process, none of its
\* background loops begins another iteration, and each of them returns.
C20_LoopsReturnOnCancellation ==
    /\ [][\A l \in Loops : ProcOf(l) \in quit => ~StartsIteration(l)]_vars
    /\ \A l \in Loops :
         (ProcOf(l) \in quit) ~> (loop[l] = "returned" \/ ProcOf(l) \in exited)

(***************************************************************************)
(* Claims on error handling.                                               *)
(***************************************************************************)
HandlerTypes == AlertTypes \ {"other"}

\* the latest alert delivered deserialized, has a handler, and lacks the field
\* the handler reads
LacksField(d) ==
    /\ d.id # 0
    /\ d.unmarshalOk
    /\ d.Type \in HandlerTypes
    /\ ~msgs[d.id].body.payload.HasFields

\* C21: a risk alert that is valid JSON but lacks a field its handler needs is
\* discarded without requeue and never delivered again, and the agent goes on
\* consuming alerts.
C21_MissingFieldDiscarded ==
    LacksField(lastDelivery.risk) =>
        /\ lastDelivery.risk.acks = <<"nack_discard">>
        /\ msgs[lastDelivery.risk.id].status = "discarded"
        /\ agentUp

\* the latest request executed a pending action of a type outside the
\* executor's switch, and its status was saved
ExecutedUnknownType ==
    /\ response.handler = "ExecuteAgentAction"
    /\ response.code # 400
    /\ agentActions[response.id].Type \notin ExecutorTypes
    /\ agentActions[response.id].Status # "pending"

\* C22: executing an agent action of a type the executor does not know is a
\* no-op that is not propagated as a failure: the action is not marked failed
\* and the response carries no error status.
C22_UnknownTypeNoOp ==
    ExecutedUnknownType =>
        /\ agentActions[response.id].Status # "failed"
        /\ response.code = 200

(***************************************************************************)
(* Claims on the round trip of an event.                                   *)
(***************************************************************************)
IsNumber(v) == v.kind \in {"int", "float64"}

IsText(v) == v.kind \in {"string", "uuid"}

\* equal as JSON values, whatever Go type holds them
SameValue(v, w) ==
    \/ v.kind = "nil" /\ w.kind = "nil"
    \/ IsText(v) /\ IsText(w) /\ v.s = w.s
    \/ IsNumber(v) /\ IsNumber(w) /\ v.hi = w.hi /\ v.lo = w.lo

SameData(d, e) ==
    /\ d.nil = e.nil
    /\ DOMAIN d.m = DOMAIN e.m
    /\ \A k \in DOMAIN d.m : SameValue(d.m[k], e.m[k])

\* C23: round trip.  The event handed to the handler has the id, type, board,
\* user and instant of the event that was published, and a payload with the
\* same keys and the same value under each key.
C23_RoundTrip ==
    handed # NoEvent =>
        /\ handed.ID = sent.ID
        /\ handed.Type = sent.Type
        /\ handed.BoardID = sent.BoardID
        /\ handed.UserID = sent.UserID
        /\ handed.Timestamp.instant = sent.Timestamp.instant
        /\ SameData(handed.Data, sent.Data)

(***************************************************************************)
(* Claims on malformed messages.                                           *)
(***************************************************************************)
MalformedEvent(id) ==
    /\ id \in DOMAIN msgs
    /\ msgs[id].queue = "events"
    /\ ~Unmarshal(msgs[id].body).ok

\* a well-formed event is in the queue with nothing but malformed ones ahead
BehindMalformedOnly(id) ==
    /\ id \in DOMAIN msgs
    /\ Unmarshal(msgs[id].body).ok
    /\ \E k \in 1..Len(eventQueue) :
         /\ eventQueue[k] = id
         /\ \A j \in 1..(k - 1) : MalformedEvent(eventQueue[j])

Discarded(id) == MalformedEvent(id) /\ msgs[id].status = "discarded"

HandedToHandler(id) ==
    /\ lastDelivery.events.id = id
    /\ lastDelivery.events.unmarshalOk

\* C24: a malformed message does not block the queue.  The delivery of a
\* message that does not deserialize takes it out of the queue for good, and
\* a well-formed message with only malformed ones ahead of it is eventually
\* handed to the handler.
C24_MalformedDoesNotBlock ==
    /\ [][\A id \in DOMAIN msgs :
            (MalformedEvent(id) /\ eventQueue # <<>> /\ Head(eventQueue) = id
             /\ ConsumeEvents)
            => (msgs'[id].status = "discarded" /\ eventQueue' = Tail(eventQueue))]_vars
    /\ \A id \in 1..MaxMsgs : [](Discarded(id) => [](Discarded(id) /\ ~InEventQueue(id)))
    /\ \A id \in 1..MaxMsgs : BehindMalformedOnly(id) ~> HandedToHandler(id)

C24_Witness ==
    \E id, bad \in DOMAIN msgs :
        /\ bad < id
        /\ MalformedEvent(bad)
        /\ msgs[bad].status = "discarded"
        /\ msgs[id].queue = "events"
        /\ HandedToHandler(id)

(***************************************************************************)
(* Claims on publish failure.                                              *)
(***************************************************************************)
\* this step is a request to handler whose PublishEvent returned an error
PublishFailed(handler) ==
    /\ Len(msgs') = Len(msgs) + 1
    /\ msgs'[Len(msgs')].origin = handler
    /\ msgs'[Len(msgs')].status = "lost"

\* the mutation of handler is in the database after the step
Committed(handler) ==
    CASE handler = "CreateTask" ->
           /\ TotalTasks(taskCount') = TotalTasks(taskCount) + 1
           /\ \E column \in ColumnIds : positions' = CreatedAt(positions, column)
      [] handler = "DeleteTask" ->
           /\ TotalTasks(taskCount') = TotalTasks(taskCount) - 1
           /\ \E column \in ColumnIds : \E i \in 1..Len(positions[column]) :
                 positions' = DeletedAt(positions, column, i)
      [] handler = "MoveTask" ->
           \E from, to \in ColumnIds : \E i \in 1..Len(positions[from]) :
              \E newPosition \in MovePositions :
                 positions' = MovedTo(positions, from, i, to, newPosition)
      [] handler = "DeleteBoard" -> TotalTasks(taskCount') = 0
      [] handler = "CreateEvent" -> eventLog'[Len(msgs')].api = 1
      [] OTHER -> doneTasks' \in Completing(handler, msgs'[Len(msgs')].body.payload.status,
                                            doneTasks)

InISOWeek(tasks, now) == {t \in tasks : ISOWeek(t.completedAt) = ISOWeek(now)}

\* C26: whenever the recomputation runs, the velocity row stored under the
\* current ISO week number aggregates exactly the tasks completed inside that
\* ISO calendar week: none of another week, none of this week left out.
C26_AggregatesTheISOWeek ==
    [][Recomputation
       => LET row == RowOf(velocityRows', ISOWeek(clock))
              week == InISOWeek(doneTasks, clock)
          IN  /\ row.Completed = Cardinality(week)
              /\ row.TotalPoints = SumPoints(week)]_vars

(***************************************************************************)
(* Claims on the periodic analysis.                                        *)
(***************************************************************************)
Smaller(a, b) == IF a < b THEN a ELSE b

\* C27: in a periodic analysis of a board, with O the overloaded and U the
\* underutilized users in snapshot order, exactly min(|O|, |U|) redistribute
\* actions are queued, the i-th one from O[i] to U[i]; overloaded users beyond
\* |U| get none, and no action has one user as source and target.
C27_PositionalPairing ==
    [][BoardHealth
       => LET an == analyzeWorkload(analysis)
              O == SelectSeq(an, LAMBDA user : user.IsOverloaded)
              U == SelectSeq(an, Underutilized)
              n == Smaller(Len(O), Len(U))
          IN  /\ DOMAIN pendingActions' = 1..n
              /\ \A i \in 1..n :
                    /\ pendingActions'[i].Type = "redistribute_tasks"
                    /\ pendingActions'[i].FromUserId = O[i].UserID
                    /\ pendingActions'[i].ToUserId = U[i].UserID
                    /\ pendingActions'[i].FromUserId # pendingActions'[i].ToUserId]_vars

\* two pairs were queued from a snapshot of four users
C27_Witness ==
    /\ Len(analysis) = 4
    /\ DOMAIN pendingActions = 1..2
    /\ pendingActions[1].FromUserId # pendingActions[2].FromUserId
    /\ pendingActions[1].ToUserId # pendingActions[2].ToUserId


(***************************************************************************)
(* Concurrent requests on the tasks table.                                 *)
(***************************************************************************)
\* the request served alone on table: its reads and its writes in one piece
Served(table, q) ==
    IF ~q.committed THEN table
    ELSE IF q.handler = "MoveTask"
    THEN Transaction(table, [q EXCEPT !.oldColumn = table[q.task].column,
                                      !.oldPosition = table[q.task].position])
    ELSE Created(table, q.column, MaxPositionIn(table, q.column) + 1)

SerialTables ==
    {Served(Served(TaskRows(MoveBoard), requests[1]), requests[2]),
     Served(Served(TaskRows(MoveBoard), requests[2]), requests[1])}

Touches(q, column) == q.column = column \/ (q.handler = "MoveTask" /\ q.oldColumn = column)

\* two finished requests, a MoveTask among them, that touch a common column
ConcurrentOnColumn ==
    /\ \A r \in Requests : requests[r].at = "done"
    /\ \E r \in Requests : requests[r].handler = "MoveTask"
    /\ \E column \in ColumnIds : \A r \in Requests : Touches(requests[r], column)

SharedPosition(table) ==
    \E a, b \in DOMAIN table : a # b /\ table[a] = table[b]

\* C28: whenever two concurrent requests on a common column have finished -
\* two MoveTasks, or a MoveTask and a CreateTask - the tasks table is the one
\* that serving the two requests one after the other, in one of the two
\* orders, would have left, and no two tasks of a column share a position.
C28_SerialPositions ==
    ConcurrentOnColumn => (taskTable \in SerialTables /\ ~SharedPosition(taskTable))


\* C29: a MoveTask request whose transaction did not commit - a shift, the
\* save or the commit itself failed - has answered with an error status and
\* has published no event; a request that published task.moved has committed
\* its move.
C29_MoveAllOrNothing ==
    \A r \in Requests :
        At(r, "MoveTask", "done") =>
            /\ ~requests[r].committed => (requests[r].code >= 400 /\ requests[r].event = "")
            /\ requests[r].event = "task.moved" => requests[r].committed


(***************************************************************************)
(* The agent against the backend's route table.                            *)
(***************************************************************************)
\* C30: against the backend's own route table every attempt of the agent to
\* execute an action succeeds (the POST is answered with 201), and every
\* action that has left the queue left it as executed, none was dropped after
\* three failed attempts.
C30_ActionsAnsweredCreated ==
    \A id \in 1..MaxActions :
        /\ \A i \in 1..Len(attempts[id]) : attempts[id][i]
        /\ finished[id].outcome # "dropped"


(***************************************************************************)
(* The burndown chart.                                                     *)
(***************************************************************************)
\* C31: a burndown response has one point per day index 0..sprintDays; each
\* point's remaining is the sprint-start total less the points completed by
\* its day and its ideal is total - total*index/sprintDays; the ideal is the
\* total at index 0, zero at index sprintDays and never increases from one
\* day to the next.
C31_BurndownShape ==
    [][GetBurndownData =>
        LET total == TotalStoryPoints(boardTasks, -SprintDays)
            data == burndownData'
        IN  /\ Len(data) = SprintDays + 1
            /\ \A k \in 1..Len(data) :
                  /\ data[k].Date = k - 1 - SprintDays
                  /\ data[k].Remaining = total - CompletedPoints(boardTasks, k - 1 - SprintDays)
                  /\ data[k].Ideal = total - Quo(total * (k - 1), SprintDays)
            /\ data[1].Ideal = total
            /\ data[SprintDays + 1].Ideal = 0
            /\ \A k \in 1..(Len(data) - 1) : data[k + 1].Ideal <= data[k].Ideal]_vars


(***************************************************************************)
(* The queue while a batch is under way.                                   *)
(***************************************************************************)
\* an entry of the map that the running batch has not in its copy any more:
\* queued after the snapshot, or already attempted and put back
OutsideBatch(id) == id \in DOMAIN pendingActions /\ ~InBatch(id)

\* C32: an action that was queued while executePendingActions works through
\* a batch is neither removed nor changed by any step of that batch; it stays
\* in the map as it was queued until a later batch has it in its snapshot.
C32_QueuedMidBatchKept ==
    [][\A id \in 1..MaxActions :
          OutsideBatch(id) =>
              (id \in DOMAIN pendingActions' /\ pendingActions'[id] = pendingActions[id])]_vars

\* a batch is under way and the map holds an action queued after its snapshot
C32_Witness ==
    /\ actions # <<>>
    /\ \E id \in DOMAIN pendingActions :
         OutsideBatch(id) /\ id \notin attempted /\ attempts[id] = <<>>


C34_SuggestionStatusTerminal ==
    /\ [][\A id \in DOMAIN suggestions :
             suggestions'[id].status # suggestions[id].status =>
                 /\ suggestions[id].status = "pending"
                 /\ suggestions'[id].status \in {"approved", "rejected"}]_vars
    /\ [][\A r \in Requests :
             (requests[r].at = "new" /\ requests'[r].at = "done") =>
                 /\ suggestions[requests'[r].task].status # "pending"
                 /\ requests'[r].code = 400
                 /\ requests'[r].event = ""
                 /\ UNCHANGED <<suggestions, agentActions>>]_vars

\* C35: at most one AgentAction is ever created for a suggestion, and once
\* the requests have finished a suggestion with an AgentAction is not rejected.
C35_OneDecisionTakesEffect ==
    \A id \in DOMAIN suggestions :
        /\ suggestions[id].actions <= 1
        /\ (suggestions[id].actions >= 1 /\ \A r \in Requests : requests[r].at = "done")
               => suggestions[id].status # "rejected"


(***************************************************************************)
(* Execution of agent actions.                                             *)
(***************************************************************************)
\* the requests whose execute function has applied the effect of action id
Applied(id) ==
    {r \in Requests : requests[r].handler = "ExecuteAgentAction"
                      /\ requests[r].task = id /\ requests[r].committed}

\* C36: the effect of an agent action is applied at most once; the status of
\* an action changes only from pending, to completed or failed; and a request
\* that found its action not pending has answered 400 and applied nothing.
C36_EffectAppliedOnce ==
    /\ [](\A id \in 1..Len(agentActions) : Cardinality(Applied(id)) <= 1)
    /\ [][\A id \in 1..Len(agentActions) :
             agentActions'[id].Status # agentActions[id].Status =>
                 /\ agentActions[id].Status = "pending"
                 /\ agentActions'[id].Status \in {"completed", "failed"}]_vars
    /\ [][\A r \in Requests :
             (requests[r].at = "new" /\ requests'[r].at = "done") =>
                 /\ requests'[r].code = 400
                 /\ ~requests'[r].committed
                 /\ UNCHANGED agentActions]_vars


(***************************************************************************)
(* The WebSocket hub.                                                      *)
(***************************************************************************)
\* C37: no client's send channel is closed more than once, and no message is
\* sent on a send channel that has been closed.
C37_SendChannelClosedOnce ==
    /\ \A c \in WsClients : hub.closes[c] <= 1
    /\ ~hub.sentOnClosed

RoomsOf(c) == {room \in BoardRooms : c \in hub.rooms[room]}

\* C38: a client is in no room but the one its roomID names, and a client
\* that has been unregistered is in no room and not in the client set.
C38_OneRoomPerClient ==
    \A c \in WsClients :
        /\ RoomsOf(c) \subseteq {hub.roomID[c]}
        /\ hub.readPump[c] = "unregistered" => (RoomsOf(c) = {} /\ c \notin hub.clients)


(***************************************************************************)
(* The default columns.                                                    *)
(***************************************************************************)
\* the places of the table where a set of the default columns starts
DefaultSets(table) ==
    {i \in 1..Len(table) :
        /\ i + Len(DefaultColumns) - 1 <= Len(table)
        /\ SubSeq(table, i, i + Len(DefaultColumns) - 1) = DefaultColumns}

\* C39: handling board.created leaves a board that had no column with nothing
\* or with the five default columns (Backlog, To Do, In Progress, Review, Done
\* at positions 0..4), never with a second set of them, and leaves a board
\* that has a column as it is.
C39_DefaultColumnsOnce ==
    [][handleBoardCreated =>
         /\ columns = <<>> => columns' \in {<<>>, DefaultColumns}
         /\ columns # <<>> => columns' = columns
         /\ Cardinality(DefaultSets(columns)) <= 1 => Cardinality(DefaultSets(columns')) <= 1]_vars
============================================================================
